---- MODULE Spec2Model ----
(***************************************************************************)
(* Model of ssh2-cpp: the session lifetime guard (session_state), the      *)
(* session lock as used by the known-host collection, the SFTP wrappers    *)
(* and the SFTP stream devices (read / write loops).                       *)
(*                                                                         *)
(* The specifications share the variables:                                 *)
(*   SpecGuard    construction, move and destruction of session_state      *)
(*   SpecRead     one logical stream read over a short-transferring        *)
(*                libssh2_sftp_read                                        *)
(*   Spec         threads sharing a known-host collection and its session  *)
(*   SpecStreams  threads driving streams opened on one sftp_channel       *)
(*   SpecIO       one logical read or write of a stream device             *)
(*   SpecOpen     a stream device opening a remote file, then a write      *)
(*   SpecSeek     seeks, reads and writes moving one handle's position     *)
(*   SpecHosts    threads searching and erasing a known-host collection    *)
(*   SpecChannel  copies of an sftp_channel and their LIBSSH2_SFTP         *)
(*   SpecDir      copies of a directory_iterator and their handle          *)
(***************************************************************************)
EXTENDS Integers, Sequences, FiniteSets, TLC

(* ------------------------------ bounds -------------------------------- *)

\* guard objects that may be constructed in one run
NGuards == 3
\* LIBSSH2_SESSION allocations in one run
NHandles == 2
\* longest remote file of the read model
MaxFile == 3
\* largest caller buffer of the read model
MaxBuf == 3
\* threads of the concurrency model
NThreads == 2
\* operations issued in one run of the concurrency model
MaxOps == 3
\* length of each stream's file in the concurrency model
FileLen == 2
\* low-level calls one logical write may issue in the write model
MaxCalls == 4
\* entries a known-host collection may hold
NEntries == 3
\* finds and erases called in one run of the known-host model
MaxHostOps == 2
\* sftp_channel objects that may be constructed in one run
NChannels == 3
\* LIBSSH2_SFTP sub-contexts that may be opened in one run
NSftp == 2
\* objects other than channels that may hold one sub-context's shared_ptr
NOthers == 1
\* directory_iterator objects that may be constructed in one run
NIters == 3
\* objects that share a session
NObjects == 3
\* entries of the listed directory
NFiles == 2
\* width in bits of stream_offset in the seek model (64 in the build)
OffsetBits == 3
\* operations on the handle in one run of the seek model
MaxSeekOps == 3

VARIABLES
    \* ---- session_state lifetime (SpecGuard)
    gstate,      \* guard -> "none" | "alive" | "failed" | "destroyed"
    m_session,   \* guard -> handle held in m_session (0: none)
    m_disconnection_message, \* guard -> TRUE when the optional is set
    gtrace,      \* guard -> libssh2 calls its constructor/destructor made
    thrown,      \* guard -> exception that left its constructor/destructor
    movedFrom,   \* guard -> guard it was move-constructed from (0: none)
    nextHandle,  \* handles allocated so far
    started,     \* handle -> "no" | "ok" | "failed" (libssh2_session_startup)
    startErr,    \* handle -> error code startup reported (0: none)
    frees,       \* handle -> times libssh2_session_free was called on it
    discs,       \* handle -> times libssh2_session_disconnect was called
    discFailed,  \* handle -> TRUE when a disconnect call reported an error
    useAfterFree,\* handle -> TRUE when a call used it after it was freed
    \* ---- stream read loop (SpecRead)
    rpc,         \* "call" | "returned" | "threw" | "off"
    rfile,       \* remote file contents
    rstart,      \* handle offset when the logical read began
    roff,        \* handle offset now
    buffer_size, \* size of the caller's buffer
    count,       \* bytes read so far (local of detail::read)
    rbuf,        \* bytes placed in the caller's buffer
    lastRc,      \* result of the latest low-level call (-2: none yet)
    ncalls,      \* low-level calls issued
    rerrPath,    \* TRUE when the error carries errinfo_file_name
    rarg,        \* buffer offset and length the latest read call was given
    \* ---- threads on shared sessions (Spec)
    pc,          \* thread -> position
    op,          \* thread -> operation in progress
    sect,        \* thread -> critical section of the operation (1 or 2)
    nops,        \* operations started so far
    lock,        \* session -> thread holding its mutex (0: free)
    inCall,      \* session -> threads inside a libssh2 call on it
    lastError,   \* session -> thread whose failed call set the last error
    reported,    \* thread -> origin of the error its exception carries
    outcome,     \* thread -> "none" | "ok" | "threw" (latest operation)
    hstate,      \* thread -> its stream's handle: "none" | "open" | "closed"
    tcount,      \* thread -> count of its running read / write loop
    got,         \* thread -> bytes its logical read has placed so far
    raced,       \* thread -> its running low-level call overlapped another
    \* ---- stream write loop (SpecIO)
    wpc,         \* "call" | "returned" | "threw" | "off"
    wdata,       \* the caller's data
    wcount,      \* bytes written so far (local of detail::write)
    accepted,    \* bytes the primitive has accepted, in the order passed
    wlastRc,     \* result of the latest low-level call (-2: none yet)
    wcalls,      \* low-level calls issued
    werrPath,    \* TRUE when the error carries errinfo_file_name
    warg,        \* data offset and length the latest write call was given
    \* ---- opening a stream device (SpecOpen)
    opc,         \* "off" | "idle" | "opened" | "rejected" | "failed"
    stype,       \* device type: "in" | "out" | "io"
    given,       \* openmode flags the caller passed to the constructor
    emode,       \* openmode flags open_file was called with
    flags,       \* LIBSSH2_FXF_ flags passed to libssh2_sftp_open_ex
    netCalled,   \* TRUE when libssh2_sftp_open_ex was called
    prefile,     \* the remote file before the open
    fexists,     \* the remote file exists
    freadonly,   \* the remote file's permissions allow no writing
    fcontent,    \* the remote file's contents
    owrite,      \* "none" | "ok" | "failed": a write through the device
    ohandle,     \* TRUE when a device instance exists and holds a handle
    oerrPath,    \* TRUE when the open's error carries errinfo_file_name
    \* ---- seeking (SpecSeek)
    spos,        \* the handle's offset (libssh2_sftp_tell64)
    fsize,       \* size of the remote file (attributes.filesize)
    slast,       \* the latest operation on the handle and its outcome
    sprev,       \* the operation before it
    scontent,    \* the remote file's bytes
    sops,        \* operations on the handle so far
    \* ---- the known-host collection (SpecHosts)
    khosts,      \* the entries of the collection, in order
    kpc,         \* thread -> "off" | "idle" | "erasing"
    kit,         \* thread -> the iterator its running erase was given
    knext,       \* thread -> the local next of its running erase
    kres,        \* what the latest find or erase returned, and to whom
    kops,        \* finds and erases called so far
    \* ---- copies of an sftp_channel (SpecChannel)
    cstate,      \* channel -> "none" | "alive" | "failed" | "destroyed"
    m_sftp,      \* channel -> the LIBSSH2_SFTP its m_sftp holds (0: none)
    copyOf,      \* channel -> the channel it was copied from (0: none)
    use_count,   \* sub-context -> owners of its shared_ptr
    others,      \* sub-context -> owners that got it from sftp_channel::get
    nextSftp,    \* sub-contexts opened so far
    shutdowns,   \* sub-context -> calls of libssh2_sftp_shutdown on it
    earlyShutdown, \* sub-context -> it was shut down while still owned
    \* ---- copies of a directory_iterator (SpecDir)
    dstate,      \* iterator -> "none" | "alive"
    dorigin,     \* iterator -> the iterator it is, directly or not, a copy of
    m_handle,    \* iterator -> the directory handle it holds (0: NULL)
    m_file_name, \* iterator -> the entry it last listed (0: none)
    dpos,        \* handle -> entries libssh2_sftp_readdir_ex has listed
    \* ---- iterators used at the end of their sequence (SpecIterators)
    m_pos,       \* the entry a known-host iterator is at (End: NULL)
    itres,       \* the latest increment or dereference and what it did
    \* ---- objects destroyed in any order (SpecRelease)
    okind,       \* object -> its class ("none": no such object)
    holds,       \* object -> the resources its shared_ptr members own
    released     \* the resources whose deleter has run, in that order

guardVars == <<gstate, m_session, m_disconnection_message, gtrace, thrown,
               movedFrom, nextHandle, started, startErr, frees, discs,
               discFailed, useAfterFree>>
readVars == <<rpc, rfile, rstart, roff, buffer_size, count, rbuf, lastRc,
              ncalls, rerrPath, rarg>>
concVars == <<pc, op, sect, nops, lock, inCall, lastError, reported, outcome,
              hstate, tcount, got, raced>>
writeVars == <<wpc, wdata, wcount, accepted, wlastRc, wcalls, werrPath, warg>>
openVars == <<opc, stype, given, emode, flags, netCalled, prefile, fexists,
              freadonly, fcontent, owrite, ohandle, oerrPath>>
seekVars == <<spos, fsize, slast, sprev, scontent, sops>>
hostVars == <<khosts, kpc, kit, knext, kres, kops>>
channelVars == <<cstate, m_sftp, copyOf, use_count, others, nextSftp, shutdowns,
                 earlyShutdown>>
dirVars == <<dstate, dorigin, m_handle, m_file_name, dpos>>
iterVars == <<m_pos, itres>>
releaseVars == <<okind, holds, released>>
vars == <<guardVars, readVars, concVars, writeVars, openVars, seekVars,
          hostVars, channelVars, dirVars, iterVars, releaseVars>>
\* what the actions of one part of the model leave alone
exceptConc == <<guardVars, readVars, writeVars, openVars, seekVars, hostVars,
               channelVars, dirVars, iterVars,
    releaseVars>>
exceptGuard == <<readVars, concVars, writeVars, openVars, seekVars, hostVars,
               channelVars, dirVars, iterVars,
    releaseVars>>
exceptIO == <<guardVars, concVars, openVars, seekVars, hostVars,
               channelVars, dirVars, iterVars,
    releaseVars>>
exceptOpen == <<guardVars, readVars, concVars, writeVars, seekVars, hostVars,
               channelVars, dirVars, iterVars,
    releaseVars>>
exceptSeek == <<guardVars, readVars, concVars, writeVars, openVars, hostVars,
               channelVars, dirVars, iterVars,
    releaseVars>>
exceptHosts == <<guardVars, readVars, concVars, writeVars, openVars,
                 seekVars, channelVars, dirVars, iterVars,
    releaseVars>>
exceptChannel == <<guardVars, readVars, concVars, writeVars, openVars,
                   seekVars, hostVars, dirVars, iterVars,
    releaseVars>>
exceptDir == <<guardVars, readVars, concVars, writeVars, openVars, seekVars,
               hostVars, channelVars,
    releaseVars>>
exceptRelease == <<guardVars, readVars, concVars, writeVars, openVars,
                   seekVars, hostVars, channelVars, dirVars, iterVars>>

Min(a, b) == IF a < b THEN a ELSE b
Max(a, b) == IF a > b THEN a ELSE b

(* ====================================================================== *)
(* session_state: allocate, optional startup, disconnect-then-free        *)
(* ====================================================================== *)

Guards == 1..NGuards
Handles == 1..NHandles
\* error codes libssh2_session_startup / disconnect may report
ErrorCodes == {-5, -43}
NoException == [kind |-> "none", detail |-> 0]

\* libssh2::session::init: a NULL result becomes bad_alloc
init_throws(allocated) == ~allocated

\* session_state(): an unconnected session
session_state_default(g, allocated) ==
    /\ gstate[g] = "none"
    /\ IF init_throws(allocated)
       THEN /\ gstate' = [gstate EXCEPT ![g] = "failed"]
            /\ thrown' = [thrown EXCEPT ![g] = [kind |-> "bad_alloc", detail |-> 0]]
            /\ UNCHANGED <<m_session, gtrace, nextHandle>>
       ELSE /\ nextHandle < NHandles
            /\ nextHandle' = nextHandle + 1
            /\ m_session' = [m_session EXCEPT ![g] = nextHandle + 1]
            /\ gtrace' = [gtrace EXCEPT ![g] = <<"init">>]
            /\ gstate' = [gstate EXCEPT ![g] = "alive"]
            /\ UNCHANGED thrown
    /\ UNCHANGED <<m_disconnection_message, movedFrom, started, startErr,
                   frees, discs, discFailed, useAfterFree>>

\* the calls the connecting constructor makes once startup has reported ec
StartupFailureCallsLeak == << >>
StartupFailureCalls == <<"free">>

\* whether the connecting constructor sets the disconnection message
SetsMessage(ec) == ec = 0

\* session_state(socket, disconnection_message)
session_state_connect(g, allocated, ec) ==
    /\ gstate[g] = "none"
    /\ IF init_throws(allocated)
       THEN /\ gstate' = [gstate EXCEPT ![g] = "failed"]
            /\ thrown' = [thrown EXCEPT ![g] = [kind |-> "bad_alloc", detail |-> 0]]
            /\ UNCHANGED <<m_session, gtrace, nextHandle, started, startErr,
                           frees, m_disconnection_message>>
       ELSE LET h == nextHandle + 1 IN
            /\ nextHandle < NHandles
            /\ nextHandle' = h
            /\ m_session' = [m_session EXCEPT ![g] = h]
            /\ started' = [started EXCEPT ![h] = IF ec = 0 THEN "ok" ELSE "failed"]
            /\ startErr' = [startErr EXCEPT ![h] = ec]
            /\ m_disconnection_message' =
                   [m_disconnection_message EXCEPT ![g] = SetsMessage(ec)]
            /\ IF ec # 0
               THEN /\ gtrace' = [gtrace EXCEPT ![g] =
                                     <<"init", "startup">> \o StartupFailureCalls]
                    /\ frees' = [frees EXCEPT ![h] =
                                     @ + Len(SelectSeq(StartupFailureCalls,
                                                       LAMBDA c : c = "free"))]
                    /\ gstate' = [gstate EXCEPT ![g] = "failed"]
                    /\ thrown' = [thrown EXCEPT ![g] =
                                     [kind |-> "system_error", detail |-> ec]]
               ELSE /\ gtrace' = [gtrace EXCEPT ![g] = <<"init", "startup">>]
                    /\ gstate' = [gstate EXCEPT ![g] = "alive"]
                    /\ UNCHANGED <<frees, thrown>>
    /\ UNCHANGED <<movedFrom, discs, discFailed, useAfterFree>>

\* what the move constructor leaves in the source object: boost::move of a
\* raw pointer copies it, and a moved-from optional stays engaged
MovedFromSession(h) == h
MovedFromMessage(m) == m

\* session_state(BOOST_RV_REF(session_state) other)
session_state_move(g, other) ==
    /\ gstate[g] = "none"
    /\ gstate[other] = "alive"
    /\ g # other
    /\ gstate' = [gstate EXCEPT ![g] = "alive"]
    /\ m_session' = [m_session EXCEPT ![g] = m_session[other],
                                      ![other] = MovedFromSession(m_session[other])]
    /\ m_disconnection_message' =
           [m_disconnection_message EXCEPT
               ![g] = m_disconnection_message[other],
               ![other] = MovedFromMessage(m_disconnection_message[other])]
    /\ movedFrom' = [movedFrom EXCEPT ![g] = other]
    /\ UNCHANGED <<gtrace, thrown, nextHandle, started, startErr, frees, discs,
                   discFailed, useAfterFree>>

\* the calls ~session_state makes, in order
DestructorCalls(hasMessage) ==
    IF hasMessage THEN <<"disconnect", "free">> ELSE <<"free">>

\* ~session_state ignores the error_code disconnect filled in
DestructorRaisesOnError(disconnectEc) == disconnectEc # 0
DestructorRaises(disconnectEc) == FALSE

\* libssh2::session::disconnect(session, description, ec): reports through ec
disconnect_ec(rc) == rc

CountOf(calls, c) == Len(SelectSeq(calls, LAMBDA x : x = c))
\* position of the first occurrence of c in calls (0: absent)
FirstIndex(calls, c) ==
    IF \E i \in 1..Len(calls) : calls[i] = c
    THEN CHOOSE i \in 1..Len(calls) :
             calls[i] = c /\ \A j \in 1..(i - 1) : calls[j] # c
    ELSE 0

\* ~session_state()
session_state_destroy(g, rc) ==
    /\ gstate[g] = "alive"
    /\ LET h == m_session[g]
           hasMessage == m_disconnection_message[g]
           ec == IF hasMessage THEN disconnect_ec(rc) ELSE 0
           raises == DestructorRaises(ec)
           all == DestructorCalls(hasMessage)
           \* an exception leaving the disconnect call skips what follows it
           calls == IF raises
                    THEN SubSeq(all, 1, FirstIndex(all, "disconnect"))
                    ELSE all
           nfree == CountOf(calls, "free")
           ndisc == CountOf(calls, "disconnect")
       IN
       /\ hasMessage \/ rc = 0
       /\ gstate' = [gstate EXCEPT ![g] = "destroyed"]
       /\ gtrace' = [gtrace EXCEPT ![g] = @ \o calls]
       /\ thrown' = [thrown EXCEPT ![g] =
                        IF raises THEN [kind |-> "ssh_error", detail |-> ec]
                        ELSE NoException]
       /\ IF h = 0
          THEN UNCHANGED <<frees, discs, discFailed, useAfterFree>>
          ELSE /\ frees' = [frees EXCEPT ![h] = @ + nfree]
               /\ discs' = [discs EXCEPT ![h] = @ + ndisc]
               /\ discFailed' = [discFailed EXCEPT ![h] = @ \/ (ndisc > 0 /\ ec # 0)]
               /\ useAfterFree' = [useAfterFree EXCEPT ![h] =
                      \/ @
                      \/ frees[h] > 0
                      \/ /\ FirstIndex(calls, "free") # 0
                         /\ FirstIndex(calls, "free") < Len(calls)]
    /\ UNCHANGED <<m_session, m_disconnection_message, movedFrom, nextHandle,
                   started, startErr>>

(* ====================================================================== *)
(* detail::read: a full read over a primitive that may transfer short     *)
(* ====================================================================== *)

Bytes == {7, 9}
Files == UNION {[1..n -> Bytes] : n \in 0..MaxFile}

\* bytes libssh2_sftp_read may transfer for a request of len bytes at offset
\* off: any positive amount up to what is asked and left, 0 only when nothing
\* is asked or left (end of file)
sftp_read_results(file, off, len) ==
    LET most == Min(len, Max(0, Len(file) - off)) IN
    IF most = 0 THEN {0} ELSE 1..most

\* the do-while condition of detail::read
ReadLoopOnce(cnt, size) == FALSE
ReadLoopContinues(cnt, size) == cnt < size

\* the buffer + count, buffer_size - count a call of the read loop is given
read_arguments_whole(cnt, size) == [off |-> 0, len |-> size]
read_arguments(cnt, size) == [off |-> cnt, len |-> size - cnt]

\* one iteration of the loop in detail::read: the wrapped call returned rc >= 0
\* having placed rc bytes at the buffer offset it was given
read_iteration(rc) ==
    /\ rpc = "call"
    /\ rarg' = read_arguments(count, buffer_size)
    /\ rc \in sftp_read_results(rfile, roff, rarg'.len)
    /\ ncalls' = ncalls + 1
    /\ lastRc' = rc
    /\ roff' = roff + rc
    /\ rbuf' = SubSeq(rbuf, 1, rarg'.off) \o SubSeq(rfile, roff + 1, roff + rc)
    /\ count' = count + rc
    /\ rpc' = IF rc = 0 THEN "returned"
              ELSE IF ReadLoopContinues(count + rc, buffer_size) THEN "call"
              ELSE "returned"
    /\ UNCHANGED <<rfile, rstart, buffer_size, rerrPath>>

\* where a loop stands once its low-level call has thrown: the exception
\* leaves the do-while and the function
AfterFailedCallRetry == "call"
AfterFailedCall == "threw"

\* one iteration whose call fails: libssh2::sftp::read throws, detail::read
\* attaches errinfo_file_name(open_path) and rethrows
read_iteration_error ==
    /\ rpc = "call"
    /\ ncalls' = ncalls + 1
    /\ lastRc' = -1
    /\ rpc' = AfterFailedCall
    /\ rerrPath' = TRUE
    /\ rarg' = read_arguments(count, buffer_size)
    /\ UNCHANGED <<rfile, rstart, roff, buffer_size, count, rbuf>>

(* ====================================================================== *)
(* detail::write: a full write over a primitive that may accept part      *)
(* ====================================================================== *)

\* bytes libssh2_sftp_write may accept of a request of len bytes
sftp_write_results(len) == 0..len

\* the do-while condition of detail::write
WriteLoopOnce(cnt, size) == FALSE
WriteLoopContinues(cnt, size) == cnt < size

\* the data + count, data_size - count a call of the write loop is given
write_arguments(cnt, size) == [off |-> cnt, len |-> size - cnt]

\* one iteration of the loop in detail::write: the wrapped call, given the
\* unwritten tail of the data, accepted rc >= 0 bytes of it
write_iteration(rc) ==
    /\ wpc = "call"
    /\ wcalls < MaxCalls
    /\ warg' = write_arguments(wcount, Len(wdata))
    /\ rc \in sftp_write_results(warg'.len)
    /\ wcalls' = wcalls + 1
    /\ wlastRc' = rc
    /\ accepted' = accepted \o SubSeq(wdata, warg'.off + 1, warg'.off + rc)
    /\ wcount' = wcount + rc
    /\ wpc' = IF WriteLoopContinues(wcount + rc, Len(wdata)) THEN "call"
              ELSE "returned"
    /\ UNCHANGED <<wdata, werrPath>>

\* one iteration whose call fails: libssh2::sftp::write throws, detail::write
\* attaches errinfo_file_name(open_path) and rethrows
write_iteration_error ==
    /\ wpc = "call"
    /\ wcalls < MaxCalls
    /\ wcalls' = wcalls + 1
    /\ wlastRc' = -1
    /\ wpc' = AfterFailedCall
    /\ werrPath' = TRUE
    /\ warg' = write_arguments(wcount, Len(wdata))
    /\ UNCHANGED <<wdata, wcount, accepted>>

(* ====================================================================== *)
(* Opening a stream device: openmode -> LIBSSH2_FXF_ flags -> server      *)
(* ====================================================================== *)

\* struct openmode
OpenFlags == {"in", "out", "app", "trunc", "nocreate", "noreplace"}
Modes == SUBSET OpenFlags
\* sftp_input_device, sftp_output_device, sftp_io_device
StreamTypes == {"in", "out", "io"}

\* the default opening_mode of each device's constructor
DefaultMode(type) ==
    CASE type = "in" -> {"in"}
      [] type = "out" -> {"out"}
      [] type = "io" -> {"in", "out"}

\* open_input_file: opening_mode | openmode::in
open_input_file_asis(m) == m
open_input_file(m) == m \cup {"in"}
\* open_output_file: opening_mode | openmode::out
open_output_file(m) == m \cup {"out"}
\* sftp_io_device: open_file is given opening_mode as it is
sftp_io_device_forced(m) == m \cup {"in", "out"}
sftp_io_device(m) == m

\* the opening mode open_file is called with
EffectiveMode(type, m) ==
    CASE type = "in" -> open_input_file(m)
      [] type = "out" -> open_output_file(m)
      [] type = "io" -> sftp_io_device(m)

\* openmode_to_libssh2_flags, the block both write branches share: CREAT
\* unless nocreate, EXCL with it when noreplace
CreationFlags(m) ==
    IF "nocreate" \notin m
    THEN {"CREAT"} \cup (IF "noreplace" \in m THEN {"EXCL"} ELSE {})
    ELSE {}
\* ... and its else-if: "Cannot combine nocreate and noreplace"
CreationThrows(m) == "nocreate" \in m /\ "noreplace" \in m

\* the branch for out with in
InOutFlagsCreating(m) == CreationFlags(m) \cup {"TRUNC"}
InOutFlags(m) ==
    IF "trunc" \in m THEN CreationFlags(m) \cup {"TRUNC"} ELSE {}

\* the branch for out without in
OutOnlyFlagsKeeping(m) ==
    CreationFlags(m) \cup (IF "app" \in m THEN {"APPEND"} ELSE {})
OutOnlyFlagsBoth(m) ==
    CreationFlags(m) \cup {"TRUNC"}
        \cup (IF "app" \in m THEN {"APPEND"} ELSE {})
OutOnlyFlagsTruncWins(m) ==
    CreationFlags(m) \cup (IF "app" \in m /\ "trunc" \notin m
                           THEN {"APPEND"} ELSE {"TRUNC"})
OutOnlyFlags(m) ==
    CreationFlags(m) \cup (IF "app" \in m THEN {"APPEND"} ELSE {"TRUNC"})

\* what the mode adds to LIBSSH2_FXF_READ
WriteFlagsTruncAlone(m) ==
    IF "out" \in m
    THEN {"WRITE"} \cup (IF "in" \in m THEN InOutFlags(m) ELSE OutOnlyFlags(m))
    ELSE IF "trunc" \in m THEN {"TRUNC"} ELSE {}
WriteFlags(m) ==
    IF "out" \in m
    THEN {"WRITE"} \cup (IF "in" \in m THEN InOutFlags(m) ELSE OutOnlyFlags(m))
    ELSE {}

\* openmode_to_libssh2_flags(opening_mode): the flags it returns ...
openmode_to_libssh2_flags(m) ==
    (IF "in" \in m THEN {"READ"} ELSE {}) \cup WriteFlags(m)
\* ... and whether it throws invalid_argument instead
openmode_throws(m) ==
    /\ "out" \in m
    /\ IF "in" \in m THEN "trunc" \in m /\ CreationThrows(m)
       ELSE CreationThrows(m)

\* the server's answer to libssh2_sftp_open_ex (as the tests of the stream
\* devices expect it): a missing file is opened only with CREAT, an existing
\* one not with CREAT|EXCL, a read-only one not for writing
server_open_fails(f, file) ==
    \/ ~file.exists /\ "CREAT" \notin f
    \/ file.exists /\ {"CREAT", "EXCL"} \subseteq f
    \/ file.exists /\ file.readonly /\ "WRITE" \in f
\* the file once the open has succeeded: created empty with 0644 permissions,
\* or emptied by TRUNC
server_open_file(f, file) ==
    IF ~file.exists
    THEN [exists |-> TRUE, readonly |-> FALSE, content |-> << >>]
    ELSE IF "TRUNC" \in f THEN [file EXCEPT !.content = << >>]
    ELSE file

\* detail::libssh2::sftp::open throws through SSH_THROW_LAST_SFTP_ERROR, which
\* is not given the path, and neither open_file nor the constructors catch
\* the exception to add it
open_error_has_path == FALSE

\* a stream device of the given type is constructed with opening mode m
open_device(type, m) ==
    /\ opc = "idle"
    /\ LET e == EffectiveMode(type, m)
           f == openmode_to_libssh2_flags(e)
           file == [exists |-> fexists, readonly |-> freadonly,
                    content |-> fcontent]
           after == server_open_file(f, file)
       IN
       /\ stype' = type
       /\ given' = m
       /\ emode' = e
       /\ prefile' = file
       /\ IF openmode_throws(e)
          THEN /\ opc' = "rejected"
               /\ netCalled' = FALSE
               /\ flags' = {}
               /\ ohandle' = FALSE
               /\ oerrPath' = FALSE
               /\ UNCHANGED <<fexists, freadonly, fcontent>>
          ELSE /\ netCalled' = TRUE
               /\ flags' = f
               /\ IF server_open_fails(f, file)
                  THEN /\ opc' = "failed"
                       /\ ohandle' = FALSE
                       /\ oerrPath' = open_error_has_path
                       /\ UNCHANGED <<fexists, freadonly, fcontent>>
                  ELSE /\ opc' = "opened"
                       /\ ohandle' = TRUE
                       /\ oerrPath' = FALSE
                       /\ fexists' = after.exists
                       /\ freadonly' = after.readonly
                       /\ fcontent' = after.content
    /\ UNCHANGED owrite

\* a byte is written through an opened output or input/output device and
\* flushed: libssh2_sftp_write fails on a handle opened without WRITE
device_write ==
    /\ opc = "opened"
    /\ stype \in {"out", "io"}
    /\ owrite = "none"
    /\ IF "WRITE" \in flags
       THEN /\ owrite' = "ok"
            /\ fcontent' = IF "APPEND" \in flags \/ fcontent = << >>
                           THEN fcontent \o <<9>>
                           ELSE <<9>> \o Tail(fcontent)
       ELSE /\ owrite' = "failed"
            /\ UNCHANGED fcontent
    /\ UNCHANGED <<opc, stype, given, emode, flags, netCalled, prefile,
                   fexists, freadonly, ohandle, oerrPath>>

(* ====================================================================== *)
(* detail::seek: the target position, the check, the low-level seek       *)
(* ====================================================================== *)

\* boost::iostreams::stream_offset: a signed integer, OffsetBits wide
OffsetModulus == 2 ^ OffsetBits
MaxOffset == 2 ^ (OffsetBits - 1) - 1
Offsets == (-MaxOffset - 1)..MaxOffset
\* offsets a handle can be at
Positions == 0..MaxOffset
\* std::ios_base::beg, cur, end
SeekDirs == {"beg", "cur", "end"}

\* libssh2_sftp_tell64 and attributes.filesize are unsigned: the sum with off
\* is taken modulo 2^OffsetBits and converted to stream_offset
ToOffset(n) ==
    LET u == n % OffsetModulus IN
    IF u > MaxOffset THEN u - OffsetModulus ELSE u

\* the switch of detail::seek
new_position_from_start(way, off, tell, filesize) ==
    CASE way = "beg" -> off
      [] way = "cur" -> off
      [] way = "end" -> ToOffset(filesize + off)
new_position(way, off, tell, filesize) ==
    CASE way = "beg" -> off
      [] way = "cur" -> ToOffset(tell + off)
      [] way = "end" -> ToOffset(filesize + off)

\* if (new_position < 0) throw logic_error
SeekRejectedNever(np) == FALSE
SeekRejectedPastEnd(np) == np < 0 \/ np > fsize
SeekRejected(np) == np < 0

\* case std::ios_base::end is the one that calls libssh2_sftp_fstat_ex: the
\* number of stat round trips a seek makes
SeekStatsAlways(way) == 1
SeekStats(way) == IF way = "end" THEN 1 ELSE 0

\* throw_last_error given the path: the exception carries it
throw_last_error_with_path == TRUE

\* libssh2_sftp_seek64(handle, new_position): the handle's offset afterwards
seek64_clamped(np) == Min(np, fsize)
seek64(np) == np

\* sftp_io_device::read, write and seek all pass m_handle: a read starts at
\* the offset that handle is at
read_head_own(tell) == IF slast.op = "write" THEN slast.before ELSE tell
read_head(tell) == tell

\* bytes of the file as it was created, bytes a write puts, and the byte the
\* server fills a gap with
Original == 7
Written == 9
Nul == 0
FileOfSize(n) == [i \in 1..n |-> Original]
DataOfSize(n) == [i \in 1..n |-> Written]

\* the server's file after data is written at offset pos: a gap between the
\* old end and pos is filled with NUL
server_write_at(content, pos, data) ==
    [i \in 1..Max(Len(content), pos + Len(data)) |->
        IF i > pos /\ i <= pos + Len(data) THEN data[i - pos]
        ELSE IF i <= Len(content) THEN content[i]
        ELSE Nul]

\* what is remembered of an operation on the handle
SeekRecord(way, off, result, ret, issued, after) ==
    [op |-> "seek", way |-> way, off |-> off, before |-> spos,
     size |-> fsize, outcome |-> result, ret |-> ret, issued |-> issued,
     after |-> after, stats |-> SeekStats(way),
     path |-> result = "error" /\ throw_last_error_with_path,
     data |-> << >>]
TransferRecord(kind, start, data, after) ==
    [op |-> kind, way |-> "none", off |-> Len(data), before |-> start,
     size |-> fsize, outcome |-> "ok", ret |-> Len(data), issued |-> FALSE,
     after |-> after, stats |-> 0, path |-> FALSE, data |-> data]

\* what is kept of the operation before the latest one: what it was, where
\* it left the handle, the offset it was given if it sought from beg, and
\* the kind of operation before it
Earlier(r) ==
    IF r.op = "none" THEN r
    ELSE [op |-> r.op, way |-> r.way,
          off |-> IF r.way = "beg" /\ r.outcome = "ok" THEN r.off ELSE 0,
          outcome |-> r.outcome, ret |-> r.ret, after |-> r.after,
          prior |-> sprev.op]

\* detail::seek(channel, handle, open_path, off, way); for end the fstat
\* succeeded
seek(way, off) ==
    /\ sops < MaxSeekOps
    /\ way \in SeekDirs
    /\ LET np == new_position(way, off, spos, fsize) IN
       IF SeekRejected(np)
       THEN /\ slast' = SeekRecord(way, off, "logic_error", -1, FALSE, spos)
            /\ UNCHANGED spos
       ELSE \* libssh2_sftp_seek64(handle, new_position); return new_position
            /\ spos' = seek64(np)
            /\ slast' = SeekRecord(way, off, "ok", np, TRUE, seek64(np))
    /\ sprev' = Earlier(slast)
    /\ sops' = sops + 1
    /\ UNCHANGED <<fsize, scontent>>

\* detail::seek from the end when libssh2_sftp_fstat_ex fails: the last error
\* is thrown with the path, nothing is computed or sought
seek_fstat_fails(off) ==
    /\ sops < MaxSeekOps
    /\ slast' = SeekRecord("end", off, "error", -1, FALSE, spos)
    /\ sprev' = Earlier(slast)
    /\ sops' = sops + 1
    /\ UNCHANGED <<spos, fsize, scontent>>

\* detail::read through the handle into a buffer of size bytes: the bytes
\* from the handle's offset up to the end of the file or of the buffer,
\* none at or past the end of the file; the offset advances by them
seek_then_read(size) ==
    /\ sops < MaxSeekOps
    /\ spos \in Positions
    /\ LET start == read_head(spos)
           n == Min(size, Max(0, fsize - start))
           data == SubSeq(scontent, start + 1, start + n)
       IN
       /\ n \in sftp_read_results(scontent, start, size)
       /\ spos' = start + n
       /\ slast' = TransferRecord("read", start, data, start + n)
    /\ sprev' = Earlier(slast)
    /\ sops' = sops + 1
    /\ UNCHANGED <<fsize, scontent>>

\* detail::write of n bytes through the handle: they are put at its offset,
\* which advances by them; the file grows when they end past its end
seek_then_write(n) ==
    /\ sops < MaxSeekOps
    /\ spos \in Positions
    /\ spos + n <= MaxOffset
    /\ spos' = spos + n
    /\ scontent' = server_write_at(scontent, spos, DataOfSize(n))
    /\ fsize' = Len(scontent')
    /\ slast' = TransferRecord("write", spos, DataOfSize(n), spos + n)
    /\ sprev' = Earlier(slast)
    /\ sops' = sops + 1

(* ====================================================================== *)
(* Threads sharing sessions: the known-host collection's session_state    *)
(* ("kh", every call under its lock) and the SSH session an sftp_channel  *)
(* and its streams call into ("ssh")                                      *)
(* ====================================================================== *)

Threads == 1..NThreads
Sessions == {"kh", "ssh"}

\* operations of knownhost.hpp, named after the libssh2 call they end in
KhOps == {"init", "readline", "get", "add", "check", "writeline", "del",
          "update"}
\* operations of the stream devices and their handle
FileOps == {"open", "read", "write", "close"}

\* lock scopes an operation opens one after the other: to_string locks once
\* to size the buffer and once to fill it, erase advances (next_host) and
\* then deletes, update erases and then adds
Sections(o) ==
    IF o \in {"writeline", "del"} THEN 2 ELSE IF o = "update" THEN 3 ELSE 1

\* the libssh2 call made inside a lock scope
CallOf(o, k) ==
    IF o \in {"del", "update"} /\ k = 1 THEN "get"
    ELSE IF o = "update" THEN (IF k = 2 THEN "del" ELSE "add")
    ELSE o

\* whether a failure of the call leaves the scope as an exception: get and
\* check only return codes, and the first writeline of to_string is given an
\* error_code
KhCallMayThrow(o, k) ==
    /\ CallOf(o, k) \notin {"get", "check"}
    /\ ~(o = "writeline" /\ k = 1)

\* bytes of the remote file thread t's stream is opened on
FileOf(t) == [i \in 1..FileLen |-> 10 * t + i]
\* what a transfer call may deliver when it raced with another call on the
\* same session: the behaviour is undefined, so besides the right bytes the
\* buffer may hold anything
Garbage(n) == [i \in 1..n |-> 0]

\* session_state::aquire_lock: blocks until the session's mutex is free
aquire_lock(t, s) ==
    /\ lock[s] = 0
    /\ lock' = [lock EXCEPT ![s] = t]

\* ~scoped_lock: the scope of the lock is left, by return or by exception
scoped_lock_release(t, s) ==
    /\ lock[s] = t
    /\ lock' = [lock EXCEPT ![s] = 0]

\* thread t enters a libssh2 call on session s; a call already running on the
\* same session races with it
EnterCall(t, s) ==
    /\ inCall' = [inCall EXCEPT ![s] = @ \cup {t}]
    /\ raced' = [u \in Threads |->
                    IF u = t THEN inCall[s] # {}
                    ELSE IF u \in inCall[s] THEN TRUE ELSE raced[u]]

\* thread t's call on session s returns
LeaveCall(t, s) ==
    /\ inCall' = [inCall EXCEPT ![s] = @ \ {t}]
    /\ raced' = [raced EXCEPT ![t] = FALSE]

\* a known-host operation is called
kh_start(t, o) ==
    /\ pc[t] = "idle"
    /\ nops < MaxOps
    /\ o \in KhOps
    /\ pc' = [pc EXCEPT ![t] = "want"]
    /\ op' = [op EXCEPT ![t] = o]
    /\ sect' = [sect EXCEPT ![t] = 1]
    /\ nops' = nops + 1
    /\ reported' = [reported EXCEPT ![t] = 0]
    /\ outcome' = [outcome EXCEPT ![t] = "none"]
    /\ UNCHANGED <<lock, inCall, lastError, hstate, tcount, got, raced>>

\* scoped_lock lock = session->aquire_lock(); followed by the wrapped call
kh_lock_and_call(t) ==
    /\ pc[t] = "want"
    /\ aquire_lock(t, "kh")
    /\ EnterCall(t, "kh")
    /\ pc' = [pc EXCEPT ![t] = "incall"]
    /\ UNCHANGED <<op, sect, nops, lastError, reported, outcome, hstate,
                   tcount, got>>

\* (the variant before it opens the next scope inside the one that has just
\* made its call, as erase would with next++ written after aquire_lock)
kh_return_nested(t) ==
    /\ pc[t] = "incall"
    /\ op[t] \in KhOps
    /\ LeaveCall(t, "kh")
    /\ IF sect[t] < Sections(op[t])
       THEN /\ sect' = [sect EXCEPT ![t] = @ + 1]
            /\ pc' = [pc EXCEPT ![t] = "want"]
            /\ UNCHANGED <<outcome, op, lock>>
       ELSE /\ scoped_lock_release(t, "kh")
            /\ pc' = [pc EXCEPT ![t] = "idle"]
            /\ op' = [op EXCEPT ![t] = "none"]
            /\ outcome' = [outcome EXCEPT ![t] = "ok"]
            /\ sect' = [sect EXCEPT ![t] = 1]
    /\ UNCHANGED <<nops, lastError, reported, hstate, tcount, got>>
\* the wrapped call returns and the lock's scope ends; the operation goes on
\* to its next scope or returns
kh_return(t) ==
    /\ pc[t] = "incall"
    /\ op[t] \in KhOps
    /\ LeaveCall(t, "kh")
    /\ scoped_lock_release(t, "kh")
    /\ IF sect[t] < Sections(op[t])
       THEN /\ sect' = [sect EXCEPT ![t] = @ + 1]
            /\ pc' = [pc EXCEPT ![t] = "want"]
            /\ UNCHANGED <<outcome, op>>
       ELSE /\ pc' = [pc EXCEPT ![t] = "idle"]
            /\ op' = [op EXCEPT ![t] = "none"]
            /\ outcome' = [outcome EXCEPT ![t] = "ok"]
            /\ sect' = [sect EXCEPT ![t] = 1]
    /\ UNCHANGED <<nops, lastError, reported, hstate, tcount, got>>

\* the wrapped call fails: libssh2 records the error in the session
kh_call_fails(t) ==
    /\ pc[t] = "incall"
    /\ op[t] \in KhOps
    /\ KhCallMayThrow(op[t], sect[t])
    /\ LeaveCall(t, "kh")
    /\ lastError' = [lastError EXCEPT !["kh"] = t]
    /\ pc' = [pc EXCEPT ![t] = "errread"]
    /\ UNCHANGED <<op, sect, nops, lock, reported, outcome, hstate, tcount,
                   got>>

\* the wrapper reads the session's last error into the exception and throws;
\* unwinding leaves the scope of the lock (the variant before it keeps the
\* lock, as a manual unlock skipped by the exception would)
kh_throw_keeps_lock(t) ==
    /\ pc[t] = "errread"
    /\ op[t] \in KhOps
    /\ reported' = [reported EXCEPT ![t] = lastError["kh"]]
    /\ pc' = [pc EXCEPT ![t] = "idle"]
    /\ outcome' = [outcome EXCEPT ![t] = "threw"]
    /\ sect' = [sect EXCEPT ![t] = 1]
    /\ op' = [op EXCEPT ![t] = "none"]
    /\ UNCHANGED <<nops, lock, inCall, lastError, hstate, tcount,
                   got, raced>>
kh_throw(t) ==
    /\ pc[t] = "errread"
    /\ op[t] \in KhOps
    /\ reported' = [reported EXCEPT ![t] = lastError["kh"]]
    /\ scoped_lock_release(t, "kh")
    /\ pc' = [pc EXCEPT ![t] = "idle"]
    /\ outcome' = [outcome EXCEPT ![t] = "threw"]
    /\ sect' = [sect EXCEPT ![t] = 1]
    /\ op' = [op EXCEPT ![t] = "none"]
    /\ UNCHANGED <<nops, inCall, lastError, hstate, tcount, got, raced>>

\* state of the stream's handle an operation needs
FileOpAllowed(t, o) ==
    IF o = "open" THEN hstate[t] = "none" ELSE hstate[t] = "open"

\* a stream operation is called and enters its first libssh2 call: open_file,
\* detail::read, detail::write, and the shared_ptr deleter
\* libssh2_sftp_close_handle (stream close or destruction); none takes a lock
file_start(t, o) ==
    /\ pc[t] = "idle"
    /\ nops < MaxOps
    /\ o \in FileOps
    /\ FileOpAllowed(t, o)
    /\ EnterCall(t, "ssh")
    /\ pc' = [pc EXCEPT ![t] = "incall"]
    /\ op' = [op EXCEPT ![t] = o]
    /\ nops' = nops + 1
    /\ reported' = [reported EXCEPT ![t] = 0]
    /\ outcome' = [outcome EXCEPT ![t] = "none"]
    /\ tcount' = [tcount EXCEPT ![t] = 0]
    /\ got' = [got EXCEPT ![t] = << >>]
    /\ UNCHANGED <<sect, lock, lastError, hstate>>

\* libssh2_sftp_open_ex returns a handle
open_return(t) ==
    /\ pc[t] = "incall"
    /\ op[t] = "open"
    /\ LeaveCall(t, "ssh")
    /\ hstate' = [hstate EXCEPT ![t] = "open"]
    /\ pc' = [pc EXCEPT ![t] = "idle"]
    /\ outcome' = [outcome EXCEPT ![t] = "ok"]
    /\ op' = [op EXCEPT ![t] = "none"]
    /\ UNCHANGED <<sect, nops, lock, lastError, reported, tcount, got>>

\* libssh2_sftp_close_handle returns; its result is dropped
close_return(t) ==
    /\ pc[t] = "incall"
    /\ op[t] = "close"
    /\ LeaveCall(t, "ssh")
    /\ hstate' = [hstate EXCEPT ![t] = "closed"]
    /\ pc' = [pc EXCEPT ![t] = "idle"]
    /\ outcome' = [outcome EXCEPT ![t] = "ok"]
    /\ op' = [op EXCEPT ![t] = "none"]
    /\ UNCHANGED <<sect, nops, lock, lastError, reported, tcount, got>>

\* one low-level transfer call of detail::read / detail::write returns rc
\* bytes; the loop goes round or the logical operation returns
transfer_return(t, rc, garbled) ==
    /\ pc[t] = "incall"
    /\ op[t] \in {"read", "write"}
    /\ rc \in 1..(FileLen - tcount[t])
    /\ garbled => raced[t]
    /\ LeaveCall(t, "ssh")
    /\ tcount' = [tcount EXCEPT ![t] = @ + rc]
    /\ got' = [got EXCEPT ![t] =
                  IF op[t] # "read" THEN @
                  ELSE IF garbled THEN @ \o Garbage(rc)
                  ELSE @ \o SubSeq(FileOf(t), tcount[t] + 1, tcount[t] + rc)]
    /\ IF ReadLoopContinues(tcount[t] + rc, FileLen)
       THEN /\ pc' = [pc EXCEPT ![t] = "loop"]
            /\ UNCHANGED <<outcome, op>>
       ELSE /\ pc' = [pc EXCEPT ![t] = "idle"]
            /\ op' = [op EXCEPT ![t] = "none"]
            /\ outcome' = [outcome EXCEPT ![t] = "ok"]
    /\ UNCHANGED <<sect, nops, lock, lastError, reported, hstate>>

\* the loop issues its next low-level call
transfer_again(t) ==
    /\ pc[t] = "loop"
    /\ EnterCall(t, "ssh")
    /\ pc' = [pc EXCEPT ![t] = "incall"]
    /\ UNCHANGED <<op, sect, nops, lock, lastError, reported, outcome, hstate,
                   tcount, got>>

\* operations of sftp.hpp on the session: libssh2::sftp::init (constructing
\* an sftp_channel), open_directory and directory_iterator::next_file
ChannelOps == {"sftp_init", "opendir", "readdir"}

\* one of them is called and enters its libssh2 call (libssh2_sftp_init,
\* libssh2_sftp_open_ex, libssh2_sftp_readdir_ex); none takes a lock
channel_start(t, o) ==
    /\ pc[t] = "idle"
    /\ nops < MaxOps
    /\ o \in ChannelOps
    /\ EnterCall(t, "ssh")
    /\ pc' = [pc EXCEPT ![t] = "incall"]
    /\ op' = [op EXCEPT ![t] = o]
    /\ nops' = nops + 1
    /\ reported' = [reported EXCEPT ![t] = 0]
    /\ outcome' = [outcome EXCEPT ![t] = "none"]
    /\ UNCHANGED <<sect, lock, lastError, hstate, tcount, got>>

\* the call returns and with it the operation
channel_return(t) ==
    /\ pc[t] = "incall"
    /\ op[t] \in ChannelOps
    /\ LeaveCall(t, "ssh")
    /\ pc' = [pc EXCEPT ![t] = "idle"]
    /\ outcome' = [outcome EXCEPT ![t] = "ok"]
    /\ op' = [op EXCEPT ![t] = "none"]
    /\ UNCHANGED <<sect, nops, lock, lastError, reported, hstate, tcount, got>>

\* libssh2_sftp_open_ex / read / write fails: libssh2 records the error in the
\* session
file_call_fails(t) ==
    /\ pc[t] = "incall"
    /\ op[t] \in {"open", "read", "write"}
    /\ LeaveCall(t, "ssh")
    /\ lastError' = [lastError EXCEPT !["ssh"] = t]
    /\ pc' = [pc EXCEPT ![t] = "errread"]
    /\ UNCHANGED <<op, sect, nops, lock, reported, outcome, hstate, tcount,
                   got>>

\* throw_last_error: last_error(session) is read into the exception; the
\* logical operation yields no count
throw_last_error(t) ==
    /\ pc[t] = "errread"
    /\ op[t] \in FileOps
    /\ reported' = [reported EXCEPT ![t] = lastError["ssh"]]
    /\ pc' = [pc EXCEPT ![t] = "idle"]
    /\ outcome' = [outcome EXCEPT ![t] = "threw"]
    /\ op' = [op EXCEPT ![t] = "none"]
    /\ tcount' = [tcount EXCEPT ![t] = 0]
    /\ got' = [got EXCEPT ![t] = << >>]
    /\ UNCHANGED <<sect, nops, lock, inCall, lastError, hstate, raced>>

\* the thread is over and drops its references and locals; the last owner of
\* the known-host collection's session_state runs ~session_state (no message:
\* only libssh2_session_free), which takes no lock
finish(t) ==
    /\ pc[t] = "idle"
    /\ IF \A u \in Threads \ {t} : pc[u] = "done"
       THEN /\ pc' = [pc EXCEPT ![t] = "dtor"]
            /\ EnterCall(t, "kh")
       ELSE /\ pc' = [pc EXCEPT ![t] = "done"]
            /\ UNCHANGED <<inCall, raced>>
    /\ op' = [op EXCEPT ![t] = "none"]
    /\ reported' = [reported EXCEPT ![t] = 0]
    /\ outcome' = [outcome EXCEPT ![t] = "none"]
    /\ tcount' = [tcount EXCEPT ![t] = 0]
    /\ got' = [got EXCEPT ![t] = << >>]
    /\ UNCHANGED <<sect, nops, lock, lastError, hstate>>

\* libssh2_session_free returns
session_freed(t) ==
    /\ pc[t] = "dtor"
    /\ LeaveCall(t, "kh")
    /\ pc' = [pc EXCEPT ![t] = "done"]
    /\ UNCHANGED <<op, sect, nops, lock, lastError, reported, outcome, hstate,
                   tcount, got>>

(* ====================================================================== *)
(* The known-host collection: entries, iterators, find and erase          *)
(* ====================================================================== *)

\* entries a collection may hold; entry e is for host HostOf(e) with key
\* KeyOf(e)
Entries == 1..NEntries
HostNames == {0, 1}
HostOf(e) == e % 2
KeyOf(e) == e
\* knownhost_iterator(): m_pos(NULL)
End == 0

Range(s) == {s[i] : i \in 1..Len(s)}
Collections ==
    {s \in UNION {[1..n -> Entries] : n \in 0..NEntries} :
        \A i, j \in 1..Len(s) : i # j => s[i] # s[j]}
IndexOf(s, e) == CHOOSE i \in 1..Len(s) : s[i] = e
Without(s, e) == SelectSeq(s, LAMBDA x : x # e)

\* libssh2_knownhost_get(hosts, &host, current_position) as next_host uses
\* it: the first entry, or the one after current_position; NULL when finished
next_host(s, current_position) ==
    IF current_position = End
    THEN IF Len(s) = 0 THEN End ELSE s[1]
    ELSE IF current_position \notin Range(s) THEN End
    ELSE IF IndexOf(s, current_position) = Len(s) THEN End
    ELSE s[IndexOf(s, current_position) + 1]

\* libssh2_knownhost_check: an entry of the host with the key is a match, an
\* entry of the host with another key a mismatch
knownhost_check(s, hostname, key) ==
    LET same == {i \in 1..Len(s) : HostOf(s[i]) = hostname /\ KeyOf(s[i]) = key}
        other == {i \in 1..Len(s) : HostOf(s[i]) = hostname}
    IN
    IF same # {}
    THEN [rc |-> "MATCH", pos |-> s[CHOOSE i \in same : \A j \in same : i <= j]]
    ELSE IF other # {}
    THEN [rc |-> "MISMATCH",
          pos |-> s[CHOOSE i \in other : \A j \in other : i >= j]]
    ELSE [rc |-> "NOTFOUND", pos |-> End]

\* knownhost_search_result(it, end, match) and its members
knownhost_search_result(it, m) == [m_host |-> it, m_end |-> End, m_match |-> m]
host(r) == r.m_host
mismatch_unless_match(r) == ~r.m_match
mismatch(r) == ~r.m_match /\ r.m_host # r.m_end
match(r) == r.m_match /\ r.m_host # r.m_end
not_found(r) == r.m_host = r.m_end

\* the switch of knownhost_collection::find
find_result(checked) ==
    CASE checked.rc = "MATCH" -> knownhost_search_result(checked.pos, TRUE)
      [] checked.rc = "MISMATCH" ->
             knownhost_search_result(checked.pos, FALSE)
      [] checked.rc = "NOTFOUND" -> knownhost_search_result(End, FALSE)


\* knownhost_collection::find(host, key, base64_key): the check under the
\* lock, then the result built from its return code
find(t, hostname, key) ==
    /\ kpc[t] = "idle"
    /\ kops < MaxHostOps
    /\ lock["kh"] = 0
    /\ LET r == find_result(knownhost_check(khosts, hostname, key)) IN
       kres' = [kind |-> "find", by |-> t,
                rc |-> knownhost_check(khosts, hostname, key).rc,
                result |-> r,
                present |-> host(r) \in Range(khosts)]
    /\ kops' = kops + 1
    /\ UNCHANGED <<khosts, kpc, kit, knext>>

\* erase(it) is called with an iterator at an entry of the collection that
\* no other thread is erasing, and runs up to the end of next++: next_host
\* has a lock scope of its own
erase_next(t, it) ==
    /\ kpc[t] = "idle"
    /\ kops < MaxHostOps
    /\ it \in Range(khosts)
    /\ \A u \in Threads : kpc[u] = "erasing" => kit[u] # it
    /\ lock["kh"] = 0
    /\ kit' = [kit EXCEPT ![t] = it]
    /\ knext' = [knext EXCEPT ![t] = next_host(khosts, it)]
    /\ kpc' = [kpc EXCEPT ![t] = "erasing"]
    /\ kops' = kops + 1
    /\ UNCHANGED <<khosts, kres>>

\* erase(it), the rest: the lock is taken again, libssh2_knownhost_del frees
\* the entry at it, and next is returned
erase_del(t) ==
    /\ kpc[t] = "erasing"
    /\ lock["kh"] = 0
    /\ khosts' = Without(khosts, kit[t])
    /\ kres' = [kind |-> "erase", by |-> t,
                at |-> kit[t],
                ret |-> knext[t],
                removedIt |-> /\ kit[t] \in Range(khosts)
                              /\ khosts' = Without(khosts, kit[t]),
                isNext |-> knext[t] = next_host(khosts, kit[t]),
                present |-> knext[t] \in Range(khosts') \cup {End}]
    /\ kit' = [kit EXCEPT ![t] = End]
    /\ knext' = [knext EXCEPT ![t] = End]
    /\ kpc' = [kpc EXCEPT ![t] = "idle"]
    /\ UNCHANGED kops

(* ====================================================================== *)
(* sftp_channel: copies sharing one LIBSSH2_SFTP                          *)
(* ====================================================================== *)

Channels == 1..NChannels
SftpContexts == 1..NSftp

\* boost::shared_ptr<LIBSSH2_SFTP>(sftp, libssh2_sftp_shutdown): the deleter
\* runs when an owner is released and none is left
DeleterRunsAlways(owners) == TRUE
DeleterRuns(owners) == owners = 0

\* an owner of context s is released (channel c, or with c = 0 another
\* object): ~shared_ptr
release(s, c) ==
    /\ use_count' = [use_count EXCEPT ![s] = @ - 1]
    /\ IF DeleterRuns(use_count[s] - 1)
       THEN /\ shutdowns' = [shutdowns EXCEPT ![s] = @ + 1]
            /\ earlyShutdown' =
                   [earlyShutdown EXCEPT ![s] =
                       @ \/ \E d \in Channels \ {c} :
                                cstate[d] = "alive" /\ m_sftp[d] = s]
       ELSE UNCHANGED <<shutdowns, earlyShutdown>>

\* sftp_channel(session): libssh2_sftp_init opens a new sub-context, or
\* returns NULL and init throws, leaving no channel
sftp_channel_open(c, ok) ==
    /\ cstate[c] = "none"
    /\ IF ok
       THEN /\ nextSftp < NSftp
            /\ nextSftp' = nextSftp + 1
            /\ cstate' = [cstate EXCEPT ![c] = "alive"]
            /\ m_sftp' = [m_sftp EXCEPT ![c] = nextSftp + 1]
            /\ use_count' = [use_count EXCEPT ![nextSftp + 1] = 1]
       ELSE /\ cstate' = [cstate EXCEPT ![c] = "failed"]
            /\ UNCHANGED <<m_sftp, use_count, nextSftp>>
    /\ UNCHANGED <<copyOf, others, shutdowns, earlyShutdown>>

\* sftp_channel(const sftp_channel&), and sftp_channel(session, other.get()):
\* the new channel shares the other's sub-context
sftp_channel_copy(c, other) ==
    /\ cstate[c] = "none"
    /\ cstate[other] = "alive"
    /\ cstate' = [cstate EXCEPT ![c] = "alive"]
    /\ m_sftp' = [m_sftp EXCEPT ![c] = m_sftp[other]]
    /\ copyOf' = [copyOf EXCEPT ![c] = other]
    /\ use_count' = [use_count EXCEPT ![m_sftp[other]] = @ + 1]
    /\ UNCHANGED <<nextSftp, others, shutdowns, earlyShutdown>>

\* ~sftp_channel: m_sftp is released
sftp_channel_destroy(c) ==
    /\ cstate[c] = "alive"
    /\ cstate' = [cstate EXCEPT ![c] = "destroyed"]
    /\ release(m_sftp[c], c)
    /\ UNCHANGED <<m_sftp, copyOf, nextSftp, others>>

\* sftp_channel::get(): the caller is handed the shared_ptr and keeps it, as
\* directory_iterator does in its m_channel
sftp_channel_get(c) ==
    /\ cstate[c] = "alive"
    /\ others[m_sftp[c]] < NOthers
    /\ others' = [others EXCEPT ![m_sftp[c]] = @ + 1]
    /\ use_count' = [use_count EXCEPT ![m_sftp[c]] = @ + 1]
    /\ UNCHANGED <<cstate, m_sftp, copyOf, nextSftp, shutdowns,
                   earlyShutdown>>

\* an object that kept the shared_ptr from get() is destroyed
owner_destroy(x) ==
    /\ others[x] > 0
    /\ others' = [others EXCEPT ![x] = @ - 1]
    /\ release(x, 0)
    /\ UNCHANGED <<cstate, m_sftp, copyOf, nextSftp>>

(* ====================================================================== *)
(* directory_iterator: copies sharing one directory handle                *)
(* ====================================================================== *)

Iterators == 1..NIters
\* the directory's entries, in the order libssh2_sftp_readdir_ex lists them
DirEntries == 1..NFiles

\* libssh2_sftp_readdir_ex on handle h: the position of the entry it returns
\* (rc > 0), or 0 at the end of the directory (rc == 0)
readdir(h) == IF dpos[h] < NFiles THEN dpos[h] + 1 ELSE 0

\* directory_iterator::next_file(): a listed entry is copied into this
\* iterator's members; at the end of the directory this iterator's m_handle
\* is reset
next_file(i, h) ==
    IF readdir(h) = 0
    THEN /\ m_handle' = [m_handle EXCEPT ![i] = 0]
         /\ UNCHANGED <<m_file_name, dpos>>
    ELSE /\ m_handle' = [m_handle EXCEPT ![i] = h]
         /\ m_file_name' = [m_file_name EXCEPT ![i] = readdir(h)]
         /\ dpos' = [dpos EXCEPT ![h] = @ + 1]

\* directory_iterator(channel, path): open_directory, then next_file()
directory_iterator(i) ==
    /\ dstate[i] = "none"
    /\ dstate' = [dstate EXCEPT ![i] = "alive"]
    /\ dorigin' = [dorigin EXCEPT ![i] = i]
    /\ next_file(i, i)
    /\ UNCHANGED iterVars

\* directory_iterator(): the end-of-directory marker, m_handle NULL
directory_iterator_end(i) ==
    /\ dstate[i] = "none"
    /\ dstate' = [dstate EXCEPT ![i] = "alive"]
    /\ dorigin' = [dorigin EXCEPT ![i] = i]
    /\ UNCHANGED <<m_handle, m_file_name, dpos, iterVars>>

\* the copy constructor: every member is copied, m_handle shares the handle
directory_iterator_copy(i, other) ==
    /\ dstate[i] = "none"
    /\ dstate[other] = "alive"
    /\ dstate' = [dstate EXCEPT ![i] = "alive"]
    /\ dorigin' = [dorigin EXCEPT ![i] = dorigin[other]]
    /\ m_handle' = [m_handle EXCEPT ![i] = m_handle[other]]
    /\ m_file_name' = [m_file_name EXCEPT ![i] = m_file_name[other]]
    /\ UNCHANGED <<dpos, iterVars>>

\* if (m_handle == NULL), if (m_pos == NULL): the iterator is at the end
past_the_end_never(pointer) == FALSE
past_the_end(pointer) == pointer = 0

\* what is remembered of an increment or a dereference: the iterator, whether
\* it was at the end, the exception thrown, the libssh2 calls made and the
\* value returned
IteratorRecord(kind, opname, i, wasEnd, exception, made, value) ==
    [kind |-> kind, op |-> opname, it |-> i, wasEnd |-> wasEnd,
     thrown |-> exception, calls |-> made, value |-> value]

\* directory_iterator::increment(): range_error at the end, else next_file()
increment(i) ==
    /\ dstate[i] = "alive"
    /\ IF past_the_end(m_handle[i])
       THEN /\ itres' = IteratorRecord("directory", "increment", i,
                                       m_handle[i] = 0, "range_error", 0, 0)
            /\ UNCHANGED <<m_handle, m_file_name, dpos>>
       ELSE /\ next_file(i, m_handle[i])
            /\ itres' = IteratorRecord("directory", "increment", i,
                                       m_handle[i] = 0, "none", 1, 0)
    /\ UNCHANGED <<dstate, dorigin, m_pos>>

\* directory_iterator::equal
equal(i, j) == m_handle[i] = m_handle[j]

\* directory_iterator::dereference(): logic_error at the end, else the
\* sftp_file made of the members next_file() filled
dereference(i) ==
    /\ dstate[i] = "alive"
    /\ itres' = IF past_the_end(m_handle[i])
                THEN IteratorRecord("directory", "dereference", i,
                                    m_handle[i] = 0, "logic_error", 0, 0)
                ELSE IteratorRecord("directory", "dereference", i,
                                    m_handle[i] = 0, "none", 0, m_file_name[i])
    /\ UNCHANGED <<dirVars, m_pos>>

(* ====================================================================== *)
(* knownhost_iterator: begin, increment, dereference                      *)
(* ====================================================================== *)

\* knownhost_collection::begin(): an iterator at the first entry; the
\* iterator starts as knownhost_iterator(), the end
knownhost_begin ==
    /\ m_pos' = next_host(khosts, End)
    /\ UNCHANGED <<dirVars, itres>>

\* knownhost_iterator::increment(): logic_error at the end, else next_host
knownhost_increment ==
    /\ IF past_the_end(m_pos)
       THEN /\ itres' = IteratorRecord("knownhost", "increment", 0,
                                       m_pos = End, "logic_error", 0, 0)
            /\ UNCHANGED m_pos
       ELSE /\ m_pos' = next_host(khosts, m_pos)
            /\ itres' = IteratorRecord("knownhost", "increment", 0,
                                       m_pos = End, "none", 1, 0)
    /\ UNCHANGED dirVars

\* knownhost_iterator::equal
knownhost_equal(pointer) == m_pos = pointer

\* knownhost_iterator::dereference(): logic_error at the end, else the
\* knownhost at m_pos
knownhost_dereference ==
    /\ itres' = IF past_the_end(m_pos)
                THEN IteratorRecord("knownhost", "dereference", 0,
                                    m_pos = End, "logic_error", 0, 0)
                ELSE IteratorRecord("knownhost", "dereference", 0,
                                    m_pos = End, "none", 0, m_pos)
    /\ UNCHANGED <<dirVars, m_pos>>

(* ====================================================================== *)
(* Destruction: members are released in reverse order of declaration,     *)
(* a shared resource's deleter runs when its last owner releases it       *)
(* ====================================================================== *)

Objects == 1..NObjects
\* ssh::session, sftp_channel, the three stream devices, directory_iterator,
\* knownhost_collection, knownhost_iterator and knownhost
Classes == {"session", "sftp_channel", "sftp_io_device", "directory_iterator",
            "knownhost_collection", "knownhost_iterator"}

\* the resources a class's members own, in the order the members are
\* declared: the session, the LIBSSH2_SFTP, a LIBSSH2_SFTP_HANDLE, the
\* LIBSSH2_KNOWNHOSTS
MembersOf(class) ==
    CASE class = "session" -> <<"session">>
      [] class = "sftp_channel" -> <<"session", "sftp">>
      [] class = "sftp_io_device" -> <<"session", "sftp", "handle">>
      [] class = "directory_iterator" -> <<"session", "sftp", "handle">>
      [] class = "knownhost_collection" -> <<"session", "hosts">>
      [] class = "knownhost_iterator" -> <<"session", "hosts">>
      [] OTHER -> << >>

Reverse(s) == [k \in 1..Len(s) |-> s[Len(s) + 1 - k]]
\* the order a destructor releases the members in: the reverse of their
\* declaration
DestructionOrderAsDeclared(class) == MembersOf(class)
DestructionOrder(class) == Reverse(MembersOf(class))

\* shared_ptr: object o gives up the resources in order, one after the
\* other; the deleter of one runs when no other object owns it
RECURSIVE ReleaseAll(_, _, _, _)
ReleaseAll(order, o, held, log) ==
    IF order = << >> THEN [held |-> held, log |-> log]
    ELSE LET r == Head(order)
             after == [held EXCEPT ![o] = @ \ {r}]
             last == r \in held[o] /\ \A x \in Objects : r \notin after[x]
         IN ReleaseAll(Tail(order), o, after,
                       IF last THEN Append(log, r) ELSE log)

\* the destructor of object o
destroy(o) ==
    /\ holds[o] # {}
    /\ LET result == ReleaseAll(DestructionOrder(okind[o]), o, holds, released)
       IN /\ holds' = result.held
          /\ released' = result.log
    /\ UNCHANGED okind

\* directory_iterator::next_file() at the end of the listing:
\* m_handle.reset()
handle_reset(o) ==
    /\ okind[o] = "directory_iterator"
    /\ "handle" \in holds[o]
    /\ LET result == ReleaseAll(<<"handle">>, o, holds, released)
       IN /\ holds' = result.held
          /\ released' = result.log
    /\ UNCHANGED okind

(* ------------------------- specifications ----------------------------- *)

\* initial values: no guard constructed, no handle allocated
NoGuards == [g \in Guards |-> "none"]
GuardZero == [g \in Guards |-> 0]
GuardFalse == [g \in Guards |-> FALSE]
GuardNoCalls == [g \in Guards |-> << >>]
GuardNoException == [g \in Guards |-> NoException]
HandleZero == [h \in Handles |-> 0]
HandleFalse == [h \in Handles |-> FALSE]
HandleNotStarted == [h \in Handles |-> "no"]
ThreadZero == [t \in Threads |-> 0]
ThreadFalse == [t \in Threads |-> FALSE]
ThreadNoBytes == [t \in Threads |-> << >>]
ThreadAll(v) == [t \in Threads |-> v]
SessionZero == [s \in Sessions |-> 0]
SessionNoCall == [s \in Sessions |-> {}]
\* no remote file, no operation made on a handle yet
ObjectNone == [o \in 1..NObjects |-> "none"]
ObjectNothing == [o \in 1..NObjects |-> {}]
NoArguments == [off |-> -1, len |-> -1]
NoResult == [kind |-> "none"]
ChannelNone == [c \in 1..NChannels |-> "none"]
ChannelZero == [c \in 1..NChannels |-> 0]
SftpZero == [x \in 1..NSftp |-> 0]
SftpFalse == [x \in 1..NSftp |-> FALSE]
IteratorNone == [i \in 1..NIters |-> "none"]
IteratorZero == [i \in 1..NIters |-> 0]
NoFile == [exists |-> FALSE, readonly |-> FALSE, content |-> << >>]
NoOperation == [op |-> "none"]

\* threads idle, sharing one known-host collection and its fresh session
Init ==
    /\ gstate = NoGuards /\ m_session = GuardZero
    /\ m_disconnection_message = GuardFalse /\ gtrace = GuardNoCalls
    /\ thrown = GuardNoException /\ movedFrom = GuardZero /\ nextHandle = 0
    /\ started = HandleNotStarted /\ startErr = HandleZero
    /\ frees = HandleZero /\ discs = HandleZero
    /\ discFailed = HandleFalse /\ useAfterFree = HandleFalse
    /\ rpc = "off" /\ rfile = << >> /\ rstart = 0 /\ roff = 0
    /\ buffer_size = 0 /\ count = 0 /\ rbuf = << >> /\ lastRc = -2
    /\ ncalls = 0 /\ rerrPath = FALSE /\ rarg = NoArguments
    /\ pc = ThreadAll("idle") /\ op = ThreadAll("none")
    /\ sect = ThreadAll(1) /\ nops = 0
    /\ lock = SessionZero /\ inCall = SessionNoCall /\ lastError = SessionZero
    /\ reported = ThreadZero /\ outcome = ThreadAll("none")
    /\ hstate = ThreadAll("none") /\ tcount = ThreadZero
    /\ got = ThreadNoBytes /\ raced = ThreadFalse
    /\ wpc = "off" /\ wdata = << >> /\ wcount = 0 /\ accepted = << >>
    /\ wlastRc = -2 /\ wcalls = 0 /\ werrPath = FALSE /\ warg = NoArguments
    /\ opc = "off" /\ stype = "in" /\ given = {} /\ emode = {} /\ flags = {}
    /\ netCalled = FALSE /\ prefile = NoFile /\ fexists = FALSE
    /\ freadonly = FALSE /\ fcontent = << >> /\ owrite = "none"
    /\ ohandle = FALSE /\ oerrPath = FALSE
    /\ spos = 0 /\ fsize = 0 /\ slast = NoOperation /\ sprev = NoOperation
    /\ scontent = << >> /\ sops = 0
    /\ khosts = << >> /\ kpc = ThreadAll("off") /\ kit = ThreadZero
    /\ knext = ThreadZero /\ kres = NoResult /\ kops = 0
    /\ cstate = ChannelNone /\ m_sftp = ChannelZero /\ copyOf = ChannelZero
    /\ use_count = SftpZero /\ others = SftpZero
    /\ nextSftp = 0 /\ shutdowns = SftpZero /\ earlyShutdown = SftpFalse
    /\ dstate = IteratorNone /\ dorigin = IteratorZero
    /\ m_handle = IteratorZero /\ m_file_name = IteratorZero
    /\ dpos = IteratorZero
    /\ m_pos = End /\ itres = NoResult
    /\ okind = ObjectNone /\ holds = ObjectNothing /\ released = << >>

Next ==
    \/ \E t \in Threads, o \in KhOps :
           kh_start(t, o) /\ UNCHANGED exceptConc
    \/ \E t \in Threads : kh_lock_and_call(t) /\ UNCHANGED exceptConc
    \/ \E t \in Threads : kh_return(t) /\ UNCHANGED exceptConc
    \/ \E t \in Threads : kh_call_fails(t) /\ UNCHANGED exceptConc
    \/ \E t \in Threads : kh_throw(t) /\ UNCHANGED exceptConc
    \/ \E t \in Threads : finish(t) /\ UNCHANGED exceptConc
    \/ \E t \in Threads : session_freed(t) /\ UNCHANGED exceptConc

\* threads idle, sharing one sftp_channel; the thread that started them may
\* have opened their streams already (as the threading tests do)
InitStreams ==
    /\ gstate = NoGuards /\ m_session = GuardZero
    /\ m_disconnection_message = GuardFalse /\ gtrace = GuardNoCalls
    /\ thrown = GuardNoException /\ movedFrom = GuardZero /\ nextHandle = 0
    /\ started = HandleNotStarted /\ startErr = HandleZero
    /\ frees = HandleZero /\ discs = HandleZero
    /\ discFailed = HandleFalse /\ useAfterFree = HandleFalse
    /\ rpc = "off" /\ rfile = << >> /\ rstart = 0 /\ roff = 0
    /\ buffer_size = 0 /\ count = 0 /\ rbuf = << >> /\ lastRc = -2
    /\ ncalls = 0 /\ rerrPath = FALSE /\ rarg = NoArguments
    /\ pc = ThreadAll("idle") /\ op = ThreadAll("none")
    /\ sect = ThreadAll(1) /\ nops = 0
    /\ lock = SessionZero /\ inCall = SessionNoCall /\ lastError = SessionZero
    /\ reported = ThreadZero /\ outcome = ThreadAll("none")
    /\ hstate \in [Threads -> {"none", "open"}] /\ tcount = ThreadZero
    /\ got = ThreadNoBytes /\ raced = ThreadFalse
    /\ wpc = "off" /\ wdata = << >> /\ wcount = 0 /\ accepted = << >>
    /\ wlastRc = -2 /\ wcalls = 0 /\ werrPath = FALSE /\ warg = NoArguments
    /\ opc = "off" /\ stype = "in" /\ given = {} /\ emode = {} /\ flags = {}
    /\ netCalled = FALSE /\ prefile = NoFile /\ fexists = FALSE
    /\ freadonly = FALSE /\ fcontent = << >> /\ owrite = "none"
    /\ ohandle = FALSE /\ oerrPath = FALSE
    /\ spos = 0 /\ fsize = 0 /\ slast = NoOperation /\ sprev = NoOperation
    /\ scontent = << >> /\ sops = 0
    /\ khosts = << >> /\ kpc = ThreadAll("off") /\ kit = ThreadZero
    /\ knext = ThreadZero /\ kres = NoResult /\ kops = 0
    /\ cstate = ChannelNone /\ m_sftp = ChannelZero /\ copyOf = ChannelZero
    /\ use_count = SftpZero /\ others = SftpZero
    /\ nextSftp = 0 /\ shutdowns = SftpZero /\ earlyShutdown = SftpFalse
    /\ dstate = IteratorNone /\ dorigin = IteratorZero
    /\ m_handle = IteratorZero /\ m_file_name = IteratorZero
    /\ dpos = IteratorZero
    /\ m_pos = End /\ itres = NoResult
    /\ okind = ObjectNone /\ holds = ObjectNothing /\ released = << >>

NextStreams ==
    \/ \E t \in Threads, o \in FileOps :
           file_start(t, o) /\ UNCHANGED exceptConc
    \/ \E t \in Threads : open_return(t) /\ UNCHANGED exceptConc
    \/ \E t \in Threads : close_return(t) /\ UNCHANGED exceptConc
    \/ \E t \in Threads, rc \in 1..FileLen, garbled \in BOOLEAN :
           transfer_return(t, rc, garbled) /\ UNCHANGED exceptConc
    \/ \E t \in Threads : transfer_again(t) /\ UNCHANGED exceptConc
    \/ \E t \in Threads : file_call_fails(t) /\ UNCHANGED exceptConc
    \/ \E t \in Threads : throw_last_error(t) /\ UNCHANGED exceptConc
    \/ \E t \in Threads, o \in ChannelOps :
           channel_start(t, o) /\ UNCHANGED exceptConc
    \/ \E t \in Threads : channel_return(t) /\ UNCHANGED exceptConc

\* no guard constructed yet, no handle allocated
InitGuard ==
    /\ gstate = NoGuards /\ m_session = GuardZero
    /\ m_disconnection_message = GuardFalse /\ gtrace = GuardNoCalls
    /\ thrown = GuardNoException /\ movedFrom = GuardZero /\ nextHandle = 0
    /\ started = HandleNotStarted /\ startErr = HandleZero
    /\ frees = HandleZero /\ discs = HandleZero
    /\ discFailed = HandleFalse /\ useAfterFree = HandleFalse
    /\ rpc = "off" /\ rfile = << >> /\ rstart = 0 /\ roff = 0
    /\ buffer_size = 0 /\ count = 0 /\ rbuf = << >> /\ lastRc = -2
    /\ ncalls = 0 /\ rerrPath = FALSE /\ rarg = NoArguments
    /\ pc = ThreadAll("off") /\ op = ThreadAll("none")
    /\ sect = ThreadAll(1) /\ nops = 0
    /\ lock = SessionZero /\ inCall = SessionNoCall /\ lastError = SessionZero
    /\ reported = ThreadZero /\ outcome = ThreadAll("none")
    /\ hstate = ThreadAll("none") /\ tcount = ThreadZero
    /\ got = ThreadNoBytes /\ raced = ThreadFalse
    /\ wpc = "off" /\ wdata = << >> /\ wcount = 0 /\ accepted = << >>
    /\ wlastRc = -2 /\ wcalls = 0 /\ werrPath = FALSE /\ warg = NoArguments
    /\ opc = "off" /\ stype = "in" /\ given = {} /\ emode = {} /\ flags = {}
    /\ netCalled = FALSE /\ prefile = NoFile /\ fexists = FALSE
    /\ freadonly = FALSE /\ fcontent = << >> /\ owrite = "none"
    /\ ohandle = FALSE /\ oerrPath = FALSE
    /\ spos = 0 /\ fsize = 0 /\ slast = NoOperation /\ sprev = NoOperation
    /\ scontent = << >> /\ sops = 0
    /\ khosts = << >> /\ kpc = ThreadAll("off") /\ kit = ThreadZero
    /\ knext = ThreadZero /\ kres = NoResult /\ kops = 0
    /\ cstate = ChannelNone /\ m_sftp = ChannelZero /\ copyOf = ChannelZero
    /\ use_count = SftpZero /\ others = SftpZero
    /\ nextSftp = 0 /\ shutdowns = SftpZero /\ earlyShutdown = SftpFalse
    /\ dstate = IteratorNone /\ dorigin = IteratorZero
    /\ m_handle = IteratorZero /\ m_file_name = IteratorZero
    /\ dpos = IteratorZero
    /\ m_pos = End /\ itres = NoResult
    /\ okind = ObjectNone /\ holds = ObjectNothing /\ released = << >>

NextGuard ==
    \/ \E g \in Guards, a \in BOOLEAN :
           session_state_default(g, a) /\ UNCHANGED exceptGuard
    \/ \E g \in Guards, a \in BOOLEAN, ec \in ErrorCodes \cup {0} :
           session_state_connect(g, a, ec) /\ UNCHANGED exceptGuard
    \/ \E g \in Guards, o \in Guards :
           session_state_move(g, o) /\ UNCHANGED exceptGuard
    \/ \E g \in Guards, rc \in ErrorCodes \cup {0} :
           session_state_destroy(g, rc) /\ UNCHANGED exceptGuard

\* a stream device read(buffer, buffer_size) is entered: the handle is open on
\* some file at some offset (a seek may have put it past the end)
InitRead ==
    /\ gstate = NoGuards /\ m_session = GuardZero
    /\ m_disconnection_message = GuardFalse /\ gtrace = GuardNoCalls
    /\ thrown = GuardNoException /\ movedFrom = GuardZero /\ nextHandle = 0
    /\ started = HandleNotStarted /\ startErr = HandleZero
    /\ frees = HandleZero /\ discs = HandleZero
    /\ discFailed = HandleFalse /\ useAfterFree = HandleFalse
    /\ rpc = "call"
    /\ rfile \in Files
    /\ rstart \in 0..(Len(rfile) + 1)
    /\ roff = rstart
    /\ buffer_size \in 0..MaxBuf
    /\ count = 0 /\ rbuf = << >> /\ lastRc = -2
    /\ ncalls = 0 /\ rerrPath = FALSE /\ rarg = NoArguments
    /\ pc = ThreadAll("off") /\ op = ThreadAll("none")
    /\ sect = ThreadAll(1) /\ nops = 0
    /\ lock = SessionZero /\ inCall = SessionNoCall /\ lastError = SessionZero
    /\ reported = ThreadZero /\ outcome = ThreadAll("none")
    /\ hstate = ThreadAll("none") /\ tcount = ThreadZero
    /\ got = ThreadNoBytes /\ raced = ThreadFalse
    /\ wpc = "off" /\ wdata = << >> /\ wcount = 0 /\ accepted = << >>
    /\ wlastRc = -2 /\ wcalls = 0 /\ werrPath = FALSE /\ warg = NoArguments
    /\ opc = "off" /\ stype = "in" /\ given = {} /\ emode = {} /\ flags = {}
    /\ netCalled = FALSE /\ prefile = NoFile /\ fexists = FALSE
    /\ freadonly = FALSE /\ fcontent = << >> /\ owrite = "none"
    /\ ohandle = FALSE /\ oerrPath = FALSE
    /\ spos = 0 /\ fsize = 0 /\ slast = NoOperation /\ sprev = NoOperation
    /\ scontent = << >> /\ sops = 0
    /\ khosts = << >> /\ kpc = ThreadAll("off") /\ kit = ThreadZero
    /\ knext = ThreadZero /\ kres = NoResult /\ kops = 0
    /\ cstate = ChannelNone /\ m_sftp = ChannelZero /\ copyOf = ChannelZero
    /\ use_count = SftpZero /\ others = SftpZero
    /\ nextSftp = 0 /\ shutdowns = SftpZero /\ earlyShutdown = SftpFalse
    /\ dstate = IteratorNone /\ dorigin = IteratorZero
    /\ m_handle = IteratorZero /\ m_file_name = IteratorZero
    /\ dpos = IteratorZero
    /\ m_pos = End /\ itres = NoResult
    /\ okind = ObjectNone /\ holds = ObjectNothing /\ released = << >>

NextRead ==
    \/ \E rc \in 0..MaxBuf : read_iteration(rc) /\ UNCHANGED <<exceptIO, writeVars>>
    \/ read_iteration_error /\ UNCHANGED <<exceptIO, writeVars>>

\* a stream device read(buffer, buffer_size) or write(data, data_size) is
\* entered on an open handle
InitIO ==
    /\ gstate = NoGuards /\ m_session = GuardZero
    /\ m_disconnection_message = GuardFalse /\ gtrace = GuardNoCalls
    /\ thrown = GuardNoException /\ movedFrom = GuardZero /\ nextHandle = 0
    /\ started = HandleNotStarted /\ startErr = HandleZero
    /\ frees = HandleZero /\ discs = HandleZero
    /\ discFailed = HandleFalse /\ useAfterFree = HandleFalse
    /\ rpc \in {"call", "off"}
    /\ rfile \in (IF rpc = "call" THEN Files ELSE {<< >>})
    /\ rstart \in (IF rpc = "call" THEN 0..(Len(rfile) + 1) ELSE {0})
    /\ roff = rstart
    /\ buffer_size \in (IF rpc = "call" THEN 0..MaxBuf ELSE {0})
    /\ count = 0 /\ rbuf = << >> /\ lastRc = -2
    /\ ncalls = 0 /\ rerrPath = FALSE /\ rarg = NoArguments
    /\ pc = ThreadAll("off") /\ op = ThreadAll("none")
    /\ sect = ThreadAll(1) /\ nops = 0
    /\ lock = SessionZero /\ inCall = SessionNoCall /\ lastError = SessionZero
    /\ reported = ThreadZero /\ outcome = ThreadAll("none")
    /\ hstate = ThreadAll("none") /\ tcount = ThreadZero
    /\ got = ThreadNoBytes /\ raced = ThreadFalse
    /\ wpc = (IF rpc = "call" THEN "off" ELSE "call")
    /\ wdata \in (IF wpc = "call" THEN Files ELSE {<< >>})
    /\ wcount = 0 /\ accepted = << >>
    /\ wlastRc = -2 /\ wcalls = 0 /\ werrPath = FALSE /\ warg = NoArguments
    /\ opc = "off" /\ stype = "in" /\ given = {} /\ emode = {} /\ flags = {}
    /\ netCalled = FALSE /\ prefile = NoFile /\ fexists = FALSE
    /\ freadonly = FALSE /\ fcontent = << >> /\ owrite = "none"
    /\ ohandle = FALSE /\ oerrPath = FALSE
    /\ spos = 0 /\ fsize = 0 /\ slast = NoOperation /\ sprev = NoOperation
    /\ scontent = << >> /\ sops = 0
    /\ khosts = << >> /\ kpc = ThreadAll("off") /\ kit = ThreadZero
    /\ knext = ThreadZero /\ kres = NoResult /\ kops = 0
    /\ cstate = ChannelNone /\ m_sftp = ChannelZero /\ copyOf = ChannelZero
    /\ use_count = SftpZero /\ others = SftpZero
    /\ nextSftp = 0 /\ shutdowns = SftpZero /\ earlyShutdown = SftpFalse
    /\ dstate = IteratorNone /\ dorigin = IteratorZero
    /\ m_handle = IteratorZero /\ m_file_name = IteratorZero
    /\ dpos = IteratorZero
    /\ m_pos = End /\ itres = NoResult
    /\ okind = ObjectNone /\ holds = ObjectNothing /\ released = << >>

NextIO ==
    \/ \E rc \in 0..MaxBuf : read_iteration(rc) /\ UNCHANGED <<exceptIO, writeVars>>
    \/ read_iteration_error /\ UNCHANGED <<exceptIO, writeVars>>
    \/ \E rc \in 0..MaxFile : write_iteration(rc) /\ UNCHANGED <<exceptIO, readVars>>
    \/ write_iteration_error /\ UNCHANGED <<exceptIO, readVars>>

\* a device is about to be constructed on a path that names no file, or a
\* file that may be read-only and may have contents
InitOpen ==
    /\ gstate = NoGuards /\ m_session = GuardZero
    /\ m_disconnection_message = GuardFalse /\ gtrace = GuardNoCalls
    /\ thrown = GuardNoException /\ movedFrom = GuardZero /\ nextHandle = 0
    /\ started = HandleNotStarted /\ startErr = HandleZero
    /\ frees = HandleZero /\ discs = HandleZero
    /\ discFailed = HandleFalse /\ useAfterFree = HandleFalse
    /\ rpc = "off" /\ rfile = << >> /\ rstart = 0 /\ roff = 0
    /\ buffer_size = 0 /\ count = 0 /\ rbuf = << >> /\ lastRc = -2
    /\ ncalls = 0 /\ rerrPath = FALSE /\ rarg = NoArguments
    /\ pc = ThreadAll("off") /\ op = ThreadAll("none")
    /\ sect = ThreadAll(1) /\ nops = 0
    /\ lock = SessionZero /\ inCall = SessionNoCall /\ lastError = SessionZero
    /\ reported = ThreadZero /\ outcome = ThreadAll("none")
    /\ hstate = ThreadAll("none") /\ tcount = ThreadZero
    /\ got = ThreadNoBytes /\ raced = ThreadFalse
    /\ wpc = "off" /\ wdata = << >> /\ wcount = 0 /\ accepted = << >>
    /\ wlastRc = -2 /\ wcalls = 0 /\ werrPath = FALSE /\ warg = NoArguments
    /\ opc = "idle" /\ stype = "in" /\ given = {} /\ emode = {} /\ flags = {}
    /\ netCalled = FALSE /\ prefile = NoFile
    /\ fexists \in BOOLEAN
    /\ freadonly \in (IF fexists THEN BOOLEAN ELSE {FALSE})
    /\ fcontent \in (IF fexists THEN {<< >>, <<7>>, <<7, 7>>} ELSE {<< >>})
    /\ owrite = "none" /\ ohandle = FALSE /\ oerrPath = FALSE
    /\ spos = 0 /\ fsize = 0 /\ slast = NoOperation /\ sprev = NoOperation
    /\ scontent = << >> /\ sops = 0
    /\ khosts = << >> /\ kpc = ThreadAll("off") /\ kit = ThreadZero
    /\ knext = ThreadZero /\ kres = NoResult /\ kops = 0
    /\ cstate = ChannelNone /\ m_sftp = ChannelZero /\ copyOf = ChannelZero
    /\ use_count = SftpZero /\ others = SftpZero
    /\ nextSftp = 0 /\ shutdowns = SftpZero /\ earlyShutdown = SftpFalse
    /\ dstate = IteratorNone /\ dorigin = IteratorZero
    /\ m_handle = IteratorZero /\ m_file_name = IteratorZero
    /\ dpos = IteratorZero
    /\ m_pos = End /\ itres = NoResult
    /\ okind = ObjectNone /\ holds = ObjectNothing /\ released = << >>

NextOpen ==
    \/ \E type \in StreamTypes : \E m \in Modes \cup {DefaultMode(type)} :
           open_device(type, m) /\ UNCHANGED exceptOpen
    \/ device_write /\ UNCHANGED exceptOpen

\* a handle was just opened on a file of some size
InitSeek ==
    /\ gstate = NoGuards /\ m_session = GuardZero
    /\ m_disconnection_message = GuardFalse /\ gtrace = GuardNoCalls
    /\ thrown = GuardNoException /\ movedFrom = GuardZero /\ nextHandle = 0
    /\ started = HandleNotStarted /\ startErr = HandleZero
    /\ frees = HandleZero /\ discs = HandleZero
    /\ discFailed = HandleFalse /\ useAfterFree = HandleFalse
    /\ rpc = "off" /\ rfile = << >> /\ rstart = 0 /\ roff = 0
    /\ buffer_size = 0 /\ count = 0 /\ rbuf = << >> /\ lastRc = -2
    /\ ncalls = 0 /\ rerrPath = FALSE /\ rarg = NoArguments
    /\ pc = ThreadAll("off") /\ op = ThreadAll("none")
    /\ sect = ThreadAll(1) /\ nops = 0
    /\ lock = SessionZero /\ inCall = SessionNoCall /\ lastError = SessionZero
    /\ reported = ThreadZero /\ outcome = ThreadAll("none")
    /\ hstate = ThreadAll("none") /\ tcount = ThreadZero
    /\ got = ThreadNoBytes /\ raced = ThreadFalse
    /\ wpc = "off" /\ wdata = << >> /\ wcount = 0 /\ accepted = << >>
    /\ wlastRc = -2 /\ wcalls = 0 /\ werrPath = FALSE /\ warg = NoArguments
    /\ opc = "off" /\ stype = "in" /\ given = {} /\ emode = {} /\ flags = {}
    /\ netCalled = FALSE /\ prefile = NoFile /\ fexists = FALSE
    /\ freadonly = FALSE /\ fcontent = << >> /\ owrite = "none"
    /\ ohandle = FALSE /\ oerrPath = FALSE
    /\ spos = 0 /\ fsize \in 0..MaxFile
    /\ slast = NoOperation /\ sprev = NoOperation
    /\ scontent = FileOfSize(fsize) /\ sops = 0
    /\ khosts = << >> /\ kpc = ThreadAll("off") /\ kit = ThreadZero
    /\ knext = ThreadZero /\ kres = NoResult /\ kops = 0
    /\ cstate = ChannelNone /\ m_sftp = ChannelZero /\ copyOf = ChannelZero
    /\ use_count = SftpZero /\ others = SftpZero
    /\ nextSftp = 0 /\ shutdowns = SftpZero /\ earlyShutdown = SftpFalse
    /\ dstate = IteratorNone /\ dorigin = IteratorZero
    /\ m_handle = IteratorZero /\ m_file_name = IteratorZero
    /\ dpos = IteratorZero
    /\ m_pos = End /\ itres = NoResult
    /\ okind = ObjectNone /\ holds = ObjectNothing /\ released = << >>

NextSeek ==
    \/ \E way \in SeekDirs, off \in Offsets :
           seek(way, off) /\ UNCHANGED exceptSeek
    \/ \E off \in Offsets : seek_fstat_fails(off) /\ UNCHANGED exceptSeek
    \/ \E n \in 1..MaxBuf : seek_then_read(n) /\ UNCHANGED exceptSeek
    \/ \E n \in 1..MaxBuf : seek_then_write(n) /\ UNCHANGED exceptSeek

\* the same handle on a file of any size libssh2_sftp_fstat_ex can report:
\* attributes.filesize is unsigned and as wide as stream_offset
InitSeekLarge ==
    /\ gstate = NoGuards /\ m_session = GuardZero
    /\ m_disconnection_message = GuardFalse /\ gtrace = GuardNoCalls
    /\ thrown = GuardNoException /\ movedFrom = GuardZero /\ nextHandle = 0
    /\ started = HandleNotStarted /\ startErr = HandleZero
    /\ frees = HandleZero /\ discs = HandleZero
    /\ discFailed = HandleFalse /\ useAfterFree = HandleFalse
    /\ rpc = "off" /\ rfile = << >> /\ rstart = 0 /\ roff = 0
    /\ buffer_size = 0 /\ count = 0 /\ rbuf = << >> /\ lastRc = -2
    /\ ncalls = 0 /\ rerrPath = FALSE /\ rarg = NoArguments
    /\ pc = ThreadAll("off") /\ op = ThreadAll("none")
    /\ sect = ThreadAll(1) /\ nops = 0
    /\ lock = SessionZero /\ inCall = SessionNoCall /\ lastError = SessionZero
    /\ reported = ThreadZero /\ outcome = ThreadAll("none")
    /\ hstate = ThreadAll("none") /\ tcount = ThreadZero
    /\ got = ThreadNoBytes /\ raced = ThreadFalse
    /\ wpc = "off" /\ wdata = << >> /\ wcount = 0 /\ accepted = << >>
    /\ wlastRc = -2 /\ wcalls = 0 /\ werrPath = FALSE /\ warg = NoArguments
    /\ opc = "off" /\ stype = "in" /\ given = {} /\ emode = {} /\ flags = {}
    /\ netCalled = FALSE /\ prefile = NoFile /\ fexists = FALSE
    /\ freadonly = FALSE /\ fcontent = << >> /\ owrite = "none"
    /\ ohandle = FALSE /\ oerrPath = FALSE
    /\ spos = 0 /\ fsize \in 0..(OffsetModulus - 1)
    /\ slast = NoOperation /\ sprev = NoOperation
    /\ scontent = FileOfSize(fsize) /\ sops = 0
    /\ khosts = << >> /\ kpc = ThreadAll("off") /\ kit = ThreadZero
    /\ knext = ThreadZero /\ kres = NoResult /\ kops = 0
    /\ cstate = ChannelNone /\ m_sftp = ChannelZero /\ copyOf = ChannelZero
    /\ use_count = SftpZero /\ others = SftpZero
    /\ nextSftp = 0 /\ shutdowns = SftpZero /\ earlyShutdown = SftpFalse
    /\ dstate = IteratorNone /\ dorigin = IteratorZero
    /\ m_handle = IteratorZero /\ m_file_name = IteratorZero
    /\ dpos = IteratorZero
    /\ m_pos = End /\ itres = NoResult
    /\ okind = ObjectNone /\ holds = ObjectNothing /\ released = << >>


\* threads sharing a collection that holds some entries
InitHosts ==
    /\ gstate = NoGuards /\ m_session = GuardZero
    /\ m_disconnection_message = GuardFalse /\ gtrace = GuardNoCalls
    /\ thrown = GuardNoException /\ movedFrom = GuardZero /\ nextHandle = 0
    /\ started = HandleNotStarted /\ startErr = HandleZero
    /\ frees = HandleZero /\ discs = HandleZero
    /\ discFailed = HandleFalse /\ useAfterFree = HandleFalse
    /\ rpc = "off" /\ rfile = << >> /\ rstart = 0 /\ roff = 0
    /\ buffer_size = 0 /\ count = 0 /\ rbuf = << >> /\ lastRc = -2
    /\ ncalls = 0 /\ rerrPath = FALSE /\ rarg = NoArguments
    /\ pc = ThreadAll("off") /\ op = ThreadAll("none")
    /\ sect = ThreadAll(1) /\ nops = 0
    /\ lock = SessionZero /\ inCall = SessionNoCall /\ lastError = SessionZero
    /\ reported = ThreadZero /\ outcome = ThreadAll("none")
    /\ hstate = ThreadAll("none") /\ tcount = ThreadZero
    /\ got = ThreadNoBytes /\ raced = ThreadFalse
    /\ wpc = "off" /\ wdata = << >> /\ wcount = 0 /\ accepted = << >>
    /\ wlastRc = -2 /\ wcalls = 0 /\ werrPath = FALSE /\ warg = NoArguments
    /\ opc = "off" /\ stype = "in" /\ given = {} /\ emode = {} /\ flags = {}
    /\ netCalled = FALSE /\ prefile = NoFile /\ fexists = FALSE
    /\ freadonly = FALSE /\ fcontent = << >> /\ owrite = "none"
    /\ ohandle = FALSE /\ oerrPath = FALSE
    /\ spos = 0 /\ fsize = 0 /\ slast = NoOperation /\ sprev = NoOperation
    /\ scontent = << >> /\ sops = 0
    /\ khosts \in Collections /\ kpc = ThreadAll("idle") /\ kit = ThreadZero
    /\ knext = ThreadZero /\ kres = NoResult /\ kops = 0
    /\ cstate = ChannelNone /\ m_sftp = ChannelZero /\ copyOf = ChannelZero
    /\ use_count = SftpZero /\ others = SftpZero
    /\ nextSftp = 0 /\ shutdowns = SftpZero /\ earlyShutdown = SftpFalse
    /\ dstate = IteratorNone /\ dorigin = IteratorZero
    /\ m_handle = IteratorZero /\ m_file_name = IteratorZero
    /\ dpos = IteratorZero
    /\ m_pos = End /\ itres = NoResult
    /\ okind = ObjectNone /\ holds = ObjectNothing /\ released = << >>

NextHosts ==
    \/ \E t \in Threads, hostname \in HostNames, key \in Entries :
           find(t, hostname, key) /\ UNCHANGED exceptHosts
    \/ \E t \in Threads, it \in Entries :
           erase_next(t, it) /\ UNCHANGED exceptHosts
    \/ \E t \in Threads : erase_del(t) /\ UNCHANGED exceptHosts
\* no sftp_channel constructed yet
InitChannel ==
    /\ gstate = NoGuards /\ m_session = GuardZero
    /\ m_disconnection_message = GuardFalse /\ gtrace = GuardNoCalls
    /\ thrown = GuardNoException /\ movedFrom = GuardZero /\ nextHandle = 0
    /\ started = HandleNotStarted /\ startErr = HandleZero
    /\ frees = HandleZero /\ discs = HandleZero
    /\ discFailed = HandleFalse /\ useAfterFree = HandleFalse
    /\ rpc = "off" /\ rfile = << >> /\ rstart = 0 /\ roff = 0
    /\ buffer_size = 0 /\ count = 0 /\ rbuf = << >> /\ lastRc = -2
    /\ ncalls = 0 /\ rerrPath = FALSE /\ rarg = NoArguments
    /\ pc = ThreadAll("off") /\ op = ThreadAll("none")
    /\ sect = ThreadAll(1) /\ nops = 0
    /\ lock = SessionZero /\ inCall = SessionNoCall /\ lastError = SessionZero
    /\ reported = ThreadZero /\ outcome = ThreadAll("none")
    /\ hstate = ThreadAll("none") /\ tcount = ThreadZero
    /\ got = ThreadNoBytes /\ raced = ThreadFalse
    /\ wpc = "off" /\ wdata = << >> /\ wcount = 0 /\ accepted = << >>
    /\ wlastRc = -2 /\ wcalls = 0 /\ werrPath = FALSE /\ warg = NoArguments
    /\ opc = "off" /\ stype = "in" /\ given = {} /\ emode = {} /\ flags = {}
    /\ netCalled = FALSE /\ prefile = NoFile /\ fexists = FALSE
    /\ freadonly = FALSE /\ fcontent = << >> /\ owrite = "none"
    /\ ohandle = FALSE /\ oerrPath = FALSE
    /\ spos = 0 /\ fsize = 0 /\ slast = NoOperation /\ sprev = NoOperation
    /\ scontent = << >> /\ sops = 0
    /\ khosts = << >> /\ kpc = ThreadAll("off") /\ kit = ThreadZero
    /\ knext = ThreadZero /\ kres = NoResult /\ kops = 0
    /\ cstate = ChannelNone /\ m_sftp = ChannelZero /\ copyOf = ChannelZero
    /\ use_count = SftpZero /\ others = SftpZero
    /\ nextSftp = 0 /\ shutdowns = SftpZero /\ earlyShutdown = SftpFalse
    /\ dstate = IteratorNone /\ dorigin = IteratorZero
    /\ m_handle = IteratorZero /\ m_file_name = IteratorZero
    /\ dpos = IteratorZero
    /\ m_pos = End /\ itres = NoResult
    /\ okind = ObjectNone /\ holds = ObjectNothing /\ released = << >>

NextChannel ==
    \/ \E c \in Channels, ok \in BOOLEAN :
           sftp_channel_open(c, ok) /\ UNCHANGED exceptChannel
    \/ \E c, other \in Channels :
           sftp_channel_copy(c, other) /\ UNCHANGED exceptChannel
    \/ \E c \in Channels : sftp_channel_destroy(c) /\ UNCHANGED exceptChannel
    \/ \E c \in Channels : sftp_channel_get(c) /\ UNCHANGED exceptChannel
    \/ \E x \in SftpContexts : owner_destroy(x) /\ UNCHANGED exceptChannel

\* no directory_iterator constructed yet
InitDir ==
    /\ gstate = NoGuards /\ m_session = GuardZero
    /\ m_disconnection_message = GuardFalse /\ gtrace = GuardNoCalls
    /\ thrown = GuardNoException /\ movedFrom = GuardZero /\ nextHandle = 0
    /\ started = HandleNotStarted /\ startErr = HandleZero
    /\ frees = HandleZero /\ discs = HandleZero
    /\ discFailed = HandleFalse /\ useAfterFree = HandleFalse
    /\ rpc = "off" /\ rfile = << >> /\ rstart = 0 /\ roff = 0
    /\ buffer_size = 0 /\ count = 0 /\ rbuf = << >> /\ lastRc = -2
    /\ ncalls = 0 /\ rerrPath = FALSE /\ rarg = NoArguments
    /\ pc = ThreadAll("off") /\ op = ThreadAll("none")
    /\ sect = ThreadAll(1) /\ nops = 0
    /\ lock = SessionZero /\ inCall = SessionNoCall /\ lastError = SessionZero
    /\ reported = ThreadZero /\ outcome = ThreadAll("none")
    /\ hstate = ThreadAll("none") /\ tcount = ThreadZero
    /\ got = ThreadNoBytes /\ raced = ThreadFalse
    /\ wpc = "off" /\ wdata = << >> /\ wcount = 0 /\ accepted = << >>
    /\ wlastRc = -2 /\ wcalls = 0 /\ werrPath = FALSE /\ warg = NoArguments
    /\ opc = "off" /\ stype = "in" /\ given = {} /\ emode = {} /\ flags = {}
    /\ netCalled = FALSE /\ prefile = NoFile /\ fexists = FALSE
    /\ freadonly = FALSE /\ fcontent = << >> /\ owrite = "none"
    /\ ohandle = FALSE /\ oerrPath = FALSE
    /\ spos = 0 /\ fsize = 0 /\ slast = NoOperation /\ sprev = NoOperation
    /\ scontent = << >> /\ sops = 0
    /\ khosts = << >> /\ kpc = ThreadAll("off") /\ kit = ThreadZero
    /\ knext = ThreadZero /\ kres = NoResult /\ kops = 0
    /\ cstate = ChannelNone /\ m_sftp = ChannelZero /\ copyOf = ChannelZero
    /\ use_count = SftpZero /\ others = SftpZero
    /\ nextSftp = 0 /\ shutdowns = SftpZero /\ earlyShutdown = SftpFalse
    /\ dstate = IteratorNone /\ dorigin = IteratorZero
    /\ m_handle = IteratorZero /\ m_file_name = IteratorZero
    /\ dpos = IteratorZero
    /\ m_pos = End /\ itres = NoResult
    /\ okind = ObjectNone /\ holds = ObjectNothing /\ released = << >>

NextDir ==
    \/ \E i \in Iterators : directory_iterator(i) /\ UNCHANGED exceptDir
    \/ \E i \in Iterators : directory_iterator_end(i) /\ UNCHANGED exceptDir
    \/ \E i, other \in Iterators :
           directory_iterator_copy(i, other) /\ UNCHANGED exceptDir
    \/ \E i \in Iterators : increment(i) /\ UNCHANGED exceptDir
    \/ \E i \in Iterators : dereference(i) /\ UNCHANGED exceptDir

\* no directory_iterator constructed yet, every known-host iterator at the
\* end of a collection that holds some entries
InitIterators ==
    /\ gstate = NoGuards /\ m_session = GuardZero
    /\ m_disconnection_message = GuardFalse /\ gtrace = GuardNoCalls
    /\ thrown = GuardNoException /\ movedFrom = GuardZero /\ nextHandle = 0
    /\ started = HandleNotStarted /\ startErr = HandleZero
    /\ frees = HandleZero /\ discs = HandleZero
    /\ discFailed = HandleFalse /\ useAfterFree = HandleFalse
    /\ rpc = "off" /\ rfile = << >> /\ rstart = 0 /\ roff = 0
    /\ buffer_size = 0 /\ count = 0 /\ rbuf = << >> /\ lastRc = -2
    /\ ncalls = 0 /\ rerrPath = FALSE /\ rarg = NoArguments
    /\ pc = ThreadAll("off") /\ op = ThreadAll("none")
    /\ sect = ThreadAll(1) /\ nops = 0
    /\ lock = SessionZero /\ inCall = SessionNoCall /\ lastError = SessionZero
    /\ reported = ThreadZero /\ outcome = ThreadAll("none")
    /\ hstate = ThreadAll("none") /\ tcount = ThreadZero
    /\ got = ThreadNoBytes /\ raced = ThreadFalse
    /\ wpc = "off" /\ wdata = << >> /\ wcount = 0 /\ accepted = << >>
    /\ wlastRc = -2 /\ wcalls = 0 /\ werrPath = FALSE /\ warg = NoArguments
    /\ opc = "off" /\ stype = "in" /\ given = {} /\ emode = {} /\ flags = {}
    /\ netCalled = FALSE /\ prefile = NoFile /\ fexists = FALSE
    /\ freadonly = FALSE /\ fcontent = << >> /\ owrite = "none"
    /\ ohandle = FALSE /\ oerrPath = FALSE
    /\ spos = 0 /\ fsize = 0 /\ slast = NoOperation /\ sprev = NoOperation
    /\ scontent = << >> /\ sops = 0
    /\ khosts \in {[k \in 1..n |-> k] : n \in 0..NEntries}
    /\ kpc = ThreadAll("off") /\ kit = ThreadZero
    /\ knext = ThreadZero /\ kres = NoResult /\ kops = 0
    /\ cstate = ChannelNone /\ m_sftp = ChannelZero /\ copyOf = ChannelZero
    /\ use_count = SftpZero /\ others = SftpZero
    /\ nextSftp = 0 /\ shutdowns = SftpZero /\ earlyShutdown = SftpFalse
    /\ dstate = IteratorNone /\ dorigin = IteratorZero
    /\ m_handle = IteratorZero /\ m_file_name = IteratorZero
    /\ dpos = IteratorZero
    /\ m_pos = End /\ itres = NoResult
    /\ okind = ObjectNone /\ holds = ObjectNothing /\ released = << >>

NextIterators ==
    \/ \E i \in Iterators : directory_iterator(i) /\ UNCHANGED exceptDir
    \/ \E i \in Iterators : directory_iterator_end(i) /\ UNCHANGED exceptDir
    \/ \E i \in Iterators : increment(i) /\ UNCHANGED exceptDir
    \/ \E i \in Iterators : dereference(i) /\ UNCHANGED exceptDir
    \/ knownhost_begin /\ UNCHANGED exceptDir
    \/ knownhost_increment /\ UNCHANGED exceptDir
    \/ knownhost_dereference /\ UNCHANGED exceptDir

\* objects of any classes, made on one session and its one sub-context, one
\* handle and one host list, each owning what its members hold
InitRelease ==
    /\ gstate = NoGuards /\ m_session = GuardZero
    /\ m_disconnection_message = GuardFalse /\ gtrace = GuardNoCalls
    /\ thrown = GuardNoException /\ movedFrom = GuardZero /\ nextHandle = 0
    /\ started = HandleNotStarted /\ startErr = HandleZero
    /\ frees = HandleZero /\ discs = HandleZero
    /\ discFailed = HandleFalse /\ useAfterFree = HandleFalse
    /\ rpc = "off" /\ rfile = << >> /\ rstart = 0 /\ roff = 0
    /\ buffer_size = 0 /\ count = 0 /\ rbuf = << >> /\ lastRc = -2
    /\ ncalls = 0 /\ rerrPath = FALSE /\ rarg = NoArguments
    /\ pc = ThreadAll("off") /\ op = ThreadAll("none")
    /\ sect = ThreadAll(1) /\ nops = 0
    /\ lock = SessionZero /\ inCall = SessionNoCall /\ lastError = SessionZero
    /\ reported = ThreadZero /\ outcome = ThreadAll("none")
    /\ hstate = ThreadAll("none") /\ tcount = ThreadZero
    /\ got = ThreadNoBytes /\ raced = ThreadFalse
    /\ wpc = "off" /\ wdata = << >> /\ wcount = 0 /\ accepted = << >>
    /\ wlastRc = -2 /\ wcalls = 0 /\ werrPath = FALSE /\ warg = NoArguments
    /\ opc = "off" /\ stype = "in" /\ given = {} /\ emode = {} /\ flags = {}
    /\ netCalled = FALSE /\ prefile = NoFile /\ fexists = FALSE
    /\ freadonly = FALSE /\ fcontent = << >> /\ owrite = "none"
    /\ ohandle = FALSE /\ oerrPath = FALSE
    /\ spos = 0 /\ fsize = 0 /\ slast = NoOperation /\ sprev = NoOperation
    /\ scontent = << >> /\ sops = 0
    /\ khosts = << >> /\ kpc = ThreadAll("off") /\ kit = ThreadZero
    /\ knext = ThreadZero /\ kres = NoResult /\ kops = 0
    /\ cstate = ChannelNone /\ m_sftp = ChannelZero /\ copyOf = ChannelZero
    /\ use_count = SftpZero /\ others = SftpZero
    /\ nextSftp = 0 /\ shutdowns = SftpZero /\ earlyShutdown = SftpFalse
    /\ dstate = IteratorNone /\ dorigin = IteratorZero
    /\ m_handle = IteratorZero /\ m_file_name = IteratorZero
    /\ dpos = IteratorZero
    /\ m_pos = End /\ itres = NoResult
    /\ okind \in [Objects -> Classes]
    /\ holds = [o \in Objects |-> Range(MembersOf(okind[o]))]
    /\ released = << >>

NextRelease ==
    \/ \E o \in Objects : destroy(o) /\ UNCHANGED exceptRelease
    \/ \E o \in Objects : handle_reset(o) /\ UNCHANGED exceptRelease

Spec == Init /\ [][Next]_vars
\* a thread inside a known-host operation keeps running: it takes the lock
\* when the lock stays free, its libssh2 call ends, its exception is thrown
Running(t) ==
    /\ \/ kh_lock_and_call(t)
       \/ kh_return(t)
       \/ kh_call_fails(t)
       \/ kh_throw(t)
    /\ UNCHANGED exceptConc
SpecFair == Init /\ [][Next]_vars /\ \A t \in Threads : WF_vars(Running(t))
SpecRelease == InitRelease /\ [][NextRelease]_vars
SpecSeek == InitSeek /\ [][NextSeek]_vars
SpecSeekLarge == InitSeekLarge /\ [][NextSeek]_vars
SpecOpen == InitOpen /\ [][NextOpen]_vars
SpecIO == InitIO /\ [][NextIO]_vars
SpecStreams == InitStreams /\ [][NextStreams]_vars
SpecGuard == InitGuard /\ [][NextGuard]_vars
SpecRead == InitRead /\ [][NextRead]_vars
SpecHosts == InitHosts /\ [][NextHosts]_vars
SpecChannel == InitChannel /\ [][NextChannel]_vars
SpecDir == InitDir /\ [][NextDir]_vars
SpecIterators == InitIterators /\ [][NextIterators]_vars

(* ====================================================================== *)
(* Properties                                                             *)
(* ====================================================================== *)

InTransfer(t) == pc[t] = "incall" /\ op[t] \in {"read", "write"}

\* C1: on every session, in every reachable state, at most one operation is
\* inside a libssh2 call that touches the session's handle (known-host
\* operations, file operations, teardown)
C1_OneCallPerSession ==
    \A s \in Sessions : Cardinality(inCall[s]) <= 1

\* C2: low-level transfer calls of two streams on one session never overlap,
\* and a completed logical read holds exactly the bytes of its own file, in
\* order
C2_TransfersNeverOverlap ==
    /\ \A t \in Threads, u \in Threads :
           (t # u /\ InTransfer(t)) => ~InTransfer(u)
    /\ \A t \in Threads :
           (outcome[t] = "ok" /\ Len(got[t]) > 0) => got[t] = FileOf(t)

\* C3: the close of a stream's handle never runs while another stream's
\* low-level read on the same session is in flight
C3_CloseNeverOverlapsRead ==
    \A t \in Threads, u \in Threads :
        (t # u /\ pc[t] = "incall" /\ op[t] = "close")
            => ~(pc[u] = "incall" /\ op[u] = "read")

\* C4: the error an operation throws is the error of its own failed call,
\* never one a concurrent operation wrote into the session
C4_ErrorIsOwn ==
    \A t \in Threads : outcome[t] = "threw" => reported[t] = t

\* C5: once an operation has returned or thrown, its thread holds no session
\* lock: every exit from a lock's scope releases it
C5_LockReleasedOnExit ==
    \A t \in Threads, s \in Sessions :
        pc[t] \notin {"incall", "errread"} => lock[s] # t
\* an operation threw and another thread then took the same lock
C5_Witness ==
    \E t \in Threads, u \in Threads :
        /\ t # u
        /\ pc[t] = "idle" /\ outcome[t] = "threw"
        /\ lock["kh"] = u /\ pc[u] = "incall"

\* C6: a failed handshake frees the allocated handle exactly once, attempts
\* no disconnect, throws system_error carrying startup's error code, and
\* leaves no guard object behind
C6_HandshakeFailure ==
    \A g \in Guards :
        thrown[g].kind = "system_error" =>
            LET h == m_session[g] IN
            /\ gstate[g] = "failed"
            /\ gtrace[g] = <<"init", "startup", "free">>
            /\ frees[h] = 1
            /\ discs[h] = 0
            /\ startErr[h] # 0
            /\ thrown[g].detail = startErr[h]
            /\ ~m_disconnection_message[g]
C6_Witness ==
    \E g \in Guards :
        /\ thrown[g].kind = "system_error"
        /\ started[m_session[g]] = "failed"
        /\ frees[m_session[g]] = 1

\* C7: a live guard holds a disconnection message exactly when its handshake
\* succeeded; once a guard is destroyed its handle has been disconnected once
\* if the message was present and never otherwise, has been freed exactly
\* once, and no call used it after the free
C7_ShutdownOnceThenFreeOnce ==
    /\ \A g \in Guards :
           (gstate[g] = "alive" /\ m_session[g] # 0) =>
               (m_disconnection_message[g] <=> started[m_session[g]] = "ok")
    /\ \A g \in Guards :
           (gstate[g] = "destroyed" /\ m_session[g] # 0) =>
               LET h == m_session[g] IN
               /\ frees[h] = 1
               /\ discs[h] = IF m_disconnection_message[g] THEN 1 ELSE 0
               /\ ~useAfterFree[h]

\* C8: after a guard is move-constructed from another and both are destroyed,
\* the handle has been freed exactly once and disconnected at most once
C8_MoveTransfersOwnership ==
    \A g \in Guards :
        (/\ movedFrom[g] # 0
         /\ gstate[g] = "destroyed"
         /\ gstate[movedFrom[g]] = "destroyed"
         /\ m_session[g] # 0) =>
            /\ frees[m_session[g]] = 1
            /\ discs[m_session[g]] <= 1

\* C9: destroying a guard whose handshake succeeded lets no exception out of
\* the destructor, whatever the disconnect call reports, and ends by freeing
\* the handle
C9_DestructorNeverRaises ==
    \A g \in Guards :
        (/\ gstate[g] = "destroyed"
         /\ m_session[g] # 0
         /\ started[m_session[g]] = "ok") =>
            /\ thrown[g] = NoException
            /\ Len(gtrace[g]) > 0
            /\ gtrace[g][Len(gtrace[g])] = "free"
\* a connected guard was destroyed and its disconnect call reported an error
C9_Witness ==
    \E g \in Guards :
        /\ gstate[g] = "destroyed"
        /\ m_session[g] # 0
        /\ started[m_session[g]] = "ok"
        /\ discFailed[m_session[g]]
        /\ movedFrom[g] = 0
        /\ \A o \in Guards : movedFrom[o] # g

\* C10: a logical read returns min(buffer_size, bytes left) bytes whatever
\* short transfers the primitive makes; the bytes are the file's, in order,
\* from the starting position; the count is the number of bytes placed; and
\* fewer than buffer_size are returned only after a zero-byte result
C10_FullRead ==
    rpc = "returned" =>
        LET remaining == Max(0, Len(rfile) - rstart) IN
        /\ count = Min(buffer_size, remaining)
        /\ Len(rbuf) = count
        /\ rbuf = SubSeq(rfile, rstart + 1, rstart + count)
        /\ (count < buffer_size => lastRc = 0)
\* two short transfers, then end of file before the buffer is full
C10_Witness ==
    /\ rpc = "returned"
    /\ ncalls >= 3
    /\ count >= 2
    /\ count < buffer_size
    /\ lastRc = 0

\* C11: a logical write that returns, returns the length of the data, every
\* byte of the data having been accepted by the primitive exactly once and in
\* order; it never returns a smaller count
C11_FullWrite ==
    wpc = "returned" =>
        /\ wcount = Len(wdata)
        /\ accepted = wdata
\* the data went out in three partial writes
C11_Witness ==
    /\ wpc = "returned"
    /\ wcalls >= 3
    /\ Len(wdata) >= 3
    /\ wlastRc < Len(wdata)

\* C12: a failed low-level call ends the read loop or the write loop there:
\* the operation has thrown, with the stream's path attached, it returns no
\* count, and the failed call is the last one the loop issued
C12_ErrorAbortsLoop ==
    /\ lastRc = -1 => (rpc = "threw" /\ rerrPath)
    /\ wlastRc = -1 => (wpc = "threw" /\ werrPath)
    /\ (rerrPath \/ rpc = "threw") => lastRc = -1
    /\ (werrPath \/ wpc = "threw") => wlastRc = -1
\* a loop failed on a later iteration, after bytes had been transferred
C12_Witness ==
    \/ rpc = "threw" /\ ncalls >= 2 /\ count >= 1
    \/ wpc = "threw" /\ wcalls >= 2 /\ wcount >= 1

Contradictory(m) == {"nocreate", "noreplace"} \subseteq m
OpenAttempted == opc \in {"opened", "rejected", "failed"}

\* C13: a device constructed with both nocreate and noreplace in its opening
\* mode is rejected before libssh2_sftp_open_ex is called, whatever the
\* device type and the other flags
C13_ContradictionRejected ==
    (OpenAttempted /\ Contradictory(given)) =>
        (opc = "rejected" /\ ~netCalled)

\* C14: with out and without in in the effective mode, and not both nocreate
\* and noreplace, the flags hold WRITE, CREAT exactly when nocreate is absent,
\* EXCL exactly when noreplace is set, APPEND when app is set and TRUNC
\* otherwise; out alone empties an existing file and out|nocreate fails on a
\* missing one
C14_WriteOnlyFlags ==
    (/\ OpenAttempted
     /\ "out" \in emode /\ "in" \notin emode
     /\ ~Contradictory(emode)) =>
        /\ opc # "rejected"
        /\ "WRITE" \in flags
        /\ "CREAT" \in flags <=> "nocreate" \notin emode
        /\ "EXCL" \in flags <=> "noreplace" \in emode
        /\ "APPEND" \in flags <=> "app" \in emode
        /\ "TRUNC" \in flags <=> "app" \notin emode
        /\ (emode = {"out"} /\ prefile.exists /\ ~prefile.readonly
               /\ owrite = "none")
               => (opc = "opened" /\ fcontent = << >>)
        /\ (emode = {"out", "nocreate"} /\ ~prefile.exists)
               => (opc = "failed" /\ ~fexists)
\* out alone truncated a file that had contents
C14_Witness ==
    /\ opc = "opened"
    /\ emode = {"out"}
    /\ prefile.exists
    /\ prefile.content # << >>
    /\ fcontent = << >>

\* C15: with out and in in the effective mode, and not both nocreate and
\* noreplace: without trunc the flags hold neither CREAT nor TRUNC, a missing
\* file fails to open and an existing one keeps its contents; with trunc they
\* hold TRUNC, CREAT exactly when nocreate is absent and EXCL exactly when
\* noreplace is set
C15_ReadWriteFlags ==
    (/\ OpenAttempted
     /\ {"in", "out"} \subseteq emode
     /\ ~Contradictory(emode)) =>
        /\ opc # "rejected"
        /\ {"READ", "WRITE"} \subseteq flags
        /\ "trunc" \notin emode =>
              /\ "CREAT" \notin flags /\ "TRUNC" \notin flags
              /\ ~prefile.exists => (opc = "failed" /\ ~fexists)
              /\ (opc = "opened" /\ owrite = "none")
                     => fcontent = prefile.content
        /\ "trunc" \in emode =>
              /\ "TRUNC" \in flags
              /\ "CREAT" \in flags <=> "nocreate" \notin emode
              /\ "EXCL" \in flags <=> "noreplace" \in emode
\* in|out|trunc created a missing file, and in|out left one untouched
C15_Witness ==
    /\ opc = "opened"
    /\ \/ emode = {"in", "out", "trunc"} /\ ~prefile.exists /\ fexists
       \/ /\ emode = {"in", "out"}
          /\ prefile.content # << >>
          /\ fcontent = prefile.content

C17_TypeForcesCapabilities ==
    OpenAttempted =>
        /\ stype = "in" => "in" \in emode
        /\ stype = "out" => "out" \in emode
        /\ stype = "io" => {"in", "out"} \subseteq emode
\* C17 (amended): an input device has in and an output device has out added
\* to the flags the caller gave; an input/output device is opened with
\* exactly the flags the caller gave
C17_TypeForcesOneCapability ==
    OpenAttempted =>
        /\ stype = "in" => emode = given \cup {"in"}
        /\ stype = "out" => emode = given \cup {"out"}
        /\ stype = "io" => emode = given
\* an input device given only out, and an input/output device given only in
C17_Witness ==
    /\ OpenAttempted
    /\ \/ stype = "in" /\ given = {"out"} /\ emode = {"in", "out"}
       \/ stype = "io" /\ given = {"in"} /\ emode = {"in"}

\* C18: an input/output device given only in is opened without write access:
\* the open succeeds on a read-only file, and a write through the device
\* fails and leaves the file as it was
C18_InOnlyNoWriteAccess ==
    (OpenAttempted /\ stype = "io" /\ given = {"in"}) =>
        /\ "WRITE" \notin flags
        /\ prefile.exists => opc = "opened"
        /\ owrite # "none" =>
              (owrite = "failed" /\ fcontent = prefile.content)
\* the device opened a read-only file and its write failed
C18_Witness ==
    /\ stype = "io" /\ given = {"in"}
    /\ prefile.exists /\ prefile.readonly
    /\ opc = "opened"
    /\ owrite = "failed"

\* the target of a seek as the arithmetic of unbounded integers gives it
SeekTarget(r) ==
    CASE r.way = "beg" -> r.off
      [] r.way = "cur" -> r.before + r.off
      [] r.way = "end" -> r.size + r.off

\* C19: a seek whose target is negative, from any reference point, fails with
\* logic_error without the low-level seek being issued and leaves the
\* handle's position as it was
C19_NegativeSeekFails ==
    (/\ slast.op = "seek"
     /\ slast.outcome # "error"
     /\ SeekTarget(slast) < 0) =>
        /\ slast.outcome = "logic_error"
        /\ ~slast.issued
        /\ spos = slast.before
\* a seek back from a position reached earlier went before the start
C19_Witness ==
    /\ slast.op = "seek"
    /\ slast.way = "cur"
    /\ slast.before > 0
    /\ slast.outcome = "logic_error"
    /\ spos = slast.before

\* C20: seek(beg, p) followed by seek(cur, d), with p >= 0 and p + d >= 0,
\* returns p + d and leaves the handle at p + d, as seek(beg, p + d) does;
\* and a seek from cur starts from the position the operation before it
\* (seek, read or write) left
C20_SeekComposition ==
    /\ (/\ sprev.op = "seek" /\ sprev.way = "beg" /\ sprev.outcome = "ok"
        /\ slast.op = "seek" /\ slast.way = "cur"
        /\ sprev.off + slast.off \in Positions) =>
            /\ slast.outcome = "ok"
            /\ slast.ret = sprev.off + slast.off
            /\ spos = sprev.off + slast.off
            /\ slast.ret = new_position("beg", sprev.off + slast.off,
                                        slast.before, slast.size)
    /\ (/\ slast.op = "seek" /\ slast.way = "cur" /\ slast.outcome = "ok"
        /\ sprev.op # "none") =>
            /\ slast.ret = sprev.after + slast.off
            /\ spos = slast.ret
\* a seek to p > 0 from the start, then a seek back by d < 0 from there
C20_Witness ==
    /\ sprev.op = "seek" /\ sprev.way = "beg" /\ sprev.off > 1
    /\ slast.op = "seek" /\ slast.way = "cur" /\ slast.off < 0
    /\ slast.outcome = "ok"
    /\ spos = sprev.off + slast.off
    /\ spos > 0

\* C21: a seek from the end makes exactly one stat round trip and, for a file
\* of size S and 0 <= k <= S, seek(end, -k) returns S - k and leaves the
\* handle there; seeks from beg or cur make no stat call; when the stat call
\* fails the seek fails with an error that carries the file path, and no
\* low-level seek is issued
C21_SeekFromEnd ==
    slast.op = "seek" =>
        /\ slast.stats = (IF slast.way = "end" THEN 1 ELSE 0)
        /\ (/\ slast.way = "end" /\ slast.outcome # "error"
            /\ -slast.off \in 0..slast.size) =>
                /\ slast.outcome = "ok"
                /\ slast.ret = slast.size + slast.off
                /\ spos = slast.size + slast.off
        /\ slast.outcome = "error" =>
                /\ slast.way = "end"
                /\ slast.path
                /\ ~slast.issued
                /\ spos = slast.before
\* a seek back from the end of a file that a write has grown
C21_Witness ==
    /\ slast.op = "seek" /\ slast.way = "end" /\ slast.off < 0
    /\ slast.outcome = "ok" /\ slast.stats = 1
    /\ sprev.op = "write"
    /\ slast.size > 1
    /\ spos = slast.size + slast.off

\* C22: a seek to a position beyond the end of the remote file succeeds,
\* transfers no data and leaves the handle there; a read at a position beyond
\* the end returns zero bytes and no error; neither changes the file's
\* contents or size
C22_SeekPastEndThenRead ==
    [][/\ (/\ sops' = sops + 1
           /\ slast'.op = "seek" /\ slast'.outcome # "error"
           /\ SeekTarget(slast') > fsize
           /\ SeekTarget(slast') <= MaxOffset) =>
               /\ slast'.outcome = "ok"
               /\ slast'.data = << >>
               /\ spos' = SeekTarget(slast')
               /\ scontent' = scontent /\ fsize' = fsize
       /\ (/\ sops' = sops + 1
           /\ slast'.op = "read"
           /\ spos > fsize) =>
               /\ slast'.outcome = "ok"
               /\ slast'.ret = 0 /\ slast'.data = << >>
               /\ spos' = spos
               /\ scontent' = scontent /\ fsize' = fsize]_vars
\* a read that found nothing right after a seek past the end of a file that
\* is not empty
C22_Witness ==
    /\ sprev.op = "seek" /\ sprev.outcome = "ok"
    /\ slast.op = "read" /\ slast.before = sprev.after
    /\ slast.size > 0 /\ slast.before > slast.size
    /\ slast.ret = 0 /\ slast.outcome = "ok"
    /\ scontent = FileOfSize(slast.size)

\* C23: after a successful seek (from beg, cur or end) to a position P beyond
\* the end of a file of size S < P, a write of n bytes leaves the file with
\* size P + n, bytes S..P-1 zero and bytes P..P+n-1 the written data
C23_WritePastEndZeroFills ==
    (/\ sprev.op = "seek" /\ sprev.outcome = "ok"
     /\ slast.op = "write" /\ slast.outcome = "ok"
     /\ sprev.ret > slast.size) =>
        LET P == sprev.ret
            S == slast.size
            n == slast.ret
        IN
        /\ Len(scontent) = P + n /\ fsize = P + n
        /\ \A i \in (S + 1)..P : scontent[i] = Nul
        /\ \A i \in 1..n : scontent[P + i] = slast.data[i]
\* a byte written at offset 2 of a one-byte file after a seek from its end
C23_Witness ==
    /\ sprev.op = "seek" /\ sprev.outcome = "ok" /\ sprev.way = "end"
    /\ slast.op = "write" /\ slast.ret = 1
    /\ slast.size = 1 /\ sprev.ret = 2
    /\ scontent = <<Original, Nul, Written>>

\* C24: a failed open produces no stream instance (no device holding a
\* handle), and the error it raises carries the path that was being opened
C24_FailedOpenCarriesPath ==
    opc = "failed" => (~ohandle /\ oerrPath)

\* C25: a file opened with in must already exist, unless trunc is also given:
\* then a file that does not exist is created empty
C25_InWithTruncCreates ==
    (/\ opc \in {"opened", "failed"}
     /\ "in" \in emode /\ "nocreate" \notin emode
     /\ ~prefile.exists) =>
        IF "trunc" \in emode
        THEN opc = "opened" /\ fexists /\ fcontent = << >> /\ ~freadonly
        ELSE opc = "failed" /\ ~fexists

\* C26: every knownhost_search_result is exactly one of match, mismatch and
\* not-found; a lookup's match and mismatch results have host() at an entry
\* of the collection (not end) and its not-found result has host() at end
C26_ExactlyOneOutcome ==
    /\ \A it \in Entries \cup {End}, m \in BOOLEAN :
           LET r == knownhost_search_result(it, m) IN
           Cardinality({k \in {"match", "mismatch", "not_found"} :
                           \/ k = "match" /\ match(r)
                           \/ k = "mismatch" /\ mismatch(r)
                           \/ k = "not_found" /\ not_found(r)}) = 1
    /\ kres.kind = "find" =>
           LET r == kres.result IN
           /\ match(r) <=> kres.rc = "MATCH"
           /\ mismatch(r) <=> kres.rc = "MISMATCH"
           /\ not_found(r) <=> kres.rc = "NOTFOUND"
           /\ (match(r) \/ mismatch(r)) => (host(r) # End /\ kres.present)
           /\ not_found(r) => host(r) = End
\* after an erase, a lookup found the host with another key
C26_Witness ==
    /\ kres.kind = "find" /\ mismatch(kres.result)
    /\ host(kres.result) \in Range(khosts)
    /\ kops = 2 /\ Len(khosts) = 1

\* C28: erase(it) removes exactly the entry at it and returns an iterator to
\* the next item of the collection, or end when there is none; what it
\* returns is an entry still in the collection (or end), also when another
\* operation on the collection ran between the steps of erase
C28_EraseReturnsNext ==
    kres.kind = "erase" =>
        /\ kres.removedIt
        /\ kres.isNext
        /\ kres.present

\* C27: copies of a directory_iterator are linked: after one of them is
\* incremented every copy refers to the same directory entry, and when one
\* of them has reached the end of the directory every copy equals the end
\* marker (an iterator whose m_handle is NULL)
C27_CopiesLinked ==
    \A i, j \in Iterators :
        (/\ dstate[i] = "alive" /\ dstate[j] = "alive"
         /\ dorigin[i] = dorigin[j]) =>
            /\ m_file_name[i] = m_file_name[j]
            /\ (m_handle[i] = 0) <=> (m_handle[j] = 0)

\* what C29 says of the sub-contexts, with Last(x) telling when the last
\* reference to x is gone
ShutdownOnce(Last(_)) ==
    /\ \A c \in Channels :
           (cstate[c] # "none" /\ copyOf[c] # 0) =>
               m_sftp[c] = m_sftp[copyOf[c]]
    /\ \A x \in SftpContexts :
           /\ shutdowns[x] <= 1
           /\ ~earlyShutdown[x]
           /\ (\E c \in Channels : cstate[c] = "alive" /\ m_sftp[c] = x) =>
                  shutdowns[x] = 0
           /\ x <= nextSftp => (shutdowns[x] = 1 <=> Last(x))
NoChannelHolds(x) ==
    ~\E c \in Channels : cstate[c] = "alive" /\ m_sftp[c] = x
NoOwnerHolds(x) == NoChannelHolds(x) /\ others[x] = 0

\* C29: copies of an sftp_channel hold the same LIBSSH2_SFTP; it is shut down
\* exactly once, when the last channel holding it is destroyed, and never
\* while one that holds it is alive (as stated)
C29_ShutdownOnceAtLastCopy == ShutdownOnce(NoChannelHolds)
\* C29, amended: ... it is shut down exactly once, when the last owner of its
\* shared pointer is destroyed, be it a channel or an object that kept the
\* pointer sftp_channel::get() returned; never while a channel that holds it
\* is alive
C29_ShutdownOnceAtLastOwner == ShutdownOnce(NoOwnerHolds)
\* a channel and its copy were destroyed while another object still held
\* their sub-context, which is not shut down yet
C29_Witness ==
    \E c, d \in Channels :
        /\ copyOf[d] = c
        /\ cstate[c] = "destroyed" /\ cstate[d] = "destroyed"
        /\ others[m_sftp[c]] = 1
        /\ shutdowns[m_sftp[c]] = 0

\* C30: an input/output stream has one position for reading and writing:
\* every read or write starts at the position the operation before it left,
\* whatever that operation was, and a seek from cur starts from there too (a
\* write of n bytes at p, then seek(cur, d), then a read: the read starts at
\* p + n + d)
C30_SinglePosition ==
    /\ (slast.op \in {"read", "write"} /\ sprev.op # "none") =>
           slast.before = sprev.after
    /\ (slast.op = "seek" /\ slast.way = "cur" /\ slast.outcome = "ok"
        /\ sprev.op \in {"read", "write"}) =>
           /\ slast.ret = sprev.after + slast.off
           /\ spos = sprev.after + slast.off
    /\ spos = (IF slast.op = "none" THEN 0 ELSE slast.after)
\* a read that followed a seek from cur that followed a write
C30_Witness ==
    /\ slast.op = "read" /\ slast.ret > 0
    /\ sprev.op = "seek" /\ sprev.way = "cur" /\ sprev.outcome = "ok"
    /\ sprev.prior = "write"
    /\ slast.before = sprev.after
    /\ slast.before > 1

\* the properties C33 asks of a flag set f produced for opening mode m
WellFormedFlags(m, f) ==
    /\ "EXCL" \in f => "CREAT" \in f
    /\ ~({"APPEND", "TRUNC"} \subseteq f)
    /\ f \cap {"CREAT", "EXCL", "TRUNC", "APPEND"} # {} => "WRITE" \in f
    /\ "READ" \in f <=> "in" \in m
    /\ "WRITE" \in f <=> "out" \in m

\* C33: for every opening mode the translation succeeds for, EXCL is set only
\* with CREAT, APPEND and TRUNC never together, CREAT, EXCL, TRUNC and APPEND
\* only with WRITE, READ exactly when in is in the mode and WRITE exactly when
\* out is; the flags an open is given depend on the mode alone, not on the
\* device type, the mode the caller gave or the file
C33_FlagsWellFormed ==
    /\ \A m \in Modes :
           ~openmode_throws(m) =>
               WellFormedFlags(m, openmode_to_libssh2_flags(m))
    /\ netCalled =>
           /\ WellFormedFlags(emode, flags)
           /\ flags = openmode_to_libssh2_flags(emode)
\* an open with out, noreplace and app was given CREAT, EXCL and APPEND for a
\* file that exists
C33_Witness ==
    /\ netCalled /\ prefile.exists
    /\ {"out", "noreplace", "app"} \subseteq emode /\ "in" \notin emode
    /\ {"WRITE", "CREAT", "EXCL", "APPEND"} \subseteq flags
    /\ "TRUNC" \notin flags
    /\ opc = "failed"

C34_WriteTerminates ==
    /\ [][(wpc = "call" /\ wcalls' = wcalls + 1) =>
            \/ wpc' # "call"
            \/ Len(wdata) - wcount' < Len(wdata) - wcount]_vars
    /\ []((wpc = "returned" /\ Len(wdata) = 0) => (wcalls = 1 /\ wcount = 0))

\* the running counts stay within the requested sizes
CountsInRange ==
    /\ 0 <= count /\ count <= buffer_size
    /\ 0 <= wcount /\ wcount <= Len(wdata)
\* a step that issues a low-level call gives it the offset count and the
\* length (requested size - count), and finds count short of the requested
\* size, the call that starts a loop being allowed (mayStartFull) or not to
\* find count already there
CallStep(mayStartFull) ==
    /\ ncalls' = ncalls + 1 =>
            /\ rarg' = [off |-> count, len |-> buffer_size - count]
            /\ count < buffer_size \/ (mayStartFull /\ ncalls = 0)
    /\ wcalls' = wcalls + 1 =>
            /\ warg' = [off |-> wcount, len |-> Len(wdata) - wcount]
            /\ wcount < Len(wdata) \/ (mayStartFull /\ wcalls = 0)
\* the read loop terminates: a call that does not end it fills more of the
\* buffer, so at most max(1, buffer_size) calls are issued
ReadProgress ==
    ncalls' = ncalls + 1 =>
        /\ rpc' # "call" \/ buffer_size - count' < buffer_size - count
        /\ ncalls' <= Max(1, buffer_size)

\* C35 as stated: in every iteration of the read and of the write loop
\* 0 <= count <= requested size, each low-level call is given the offset
\* count and the length (requested size - count), no call is issued once
\* count has reached the requested size, and the read loop terminates
C35_LoopInvariants ==
    /\ []CountsInRange
    /\ [][CallStep(FALSE) /\ ReadProgress]_vars
\* C35 with the first call set apart: a do-while loop issues its first call
\* before it tests count, so a request of size 0 gets one call (of length 0);
\* after the first call no call is issued with count at the requested size
C35_LoopInvariantsAfterFirst ==
    /\ []CountsInRange
    /\ [][CallStep(TRUE) /\ ReadProgress]_vars
\* a read filled its buffer in several calls, the last one given what was
\* left of the buffer
C35_Witness ==
    /\ rpc = "returned"
    /\ ncalls >= 2
    /\ count = buffer_size
    /\ rarg.off >= 1
    /\ rarg.len = buffer_size - rarg.off
    /\ lastRc = rarg.len

\* the base a seek adds its offset to: 0, the handle's offset, the file size
SeekBase(r) ==
    CASE r.way = "beg" -> 0
      [] r.way = "cur" -> r.before
      [] r.way = "end" -> r.size

\* C38: the position a successful seek returns and leaves the handle at is
\* the mathematical sum of its base (0, the current position, the file size)
\* and the offset; when that sum does not fit the signed offset type the seek
\* does not succeed with a wrapped-around position
C38_SeekIsExactSum ==
    (slast.op = "seek" /\ slast.outcome = "ok") =>
        /\ slast.ret = SeekBase(slast) + slast.off
        /\ slast.after = SeekBase(slast) + slast.off

\* what the latest use of an iterator at its end did: the exception, no call
\* into the connection, no value
EndUseIsError ==
    (itres.kind # "none" /\ itres.wasEnd) =>
        /\ itres.thrown =
              IF itres.kind = "directory" /\ itres.op = "increment"
              THEN "range_error" ELSE "logic_error"
        /\ itres.calls = 0
        /\ itres.value = 0
\* a step that uses an iterator at its end changes nothing but the record of
\* the operation, and leaves the iterator equal to end
EndUseChangesNothing ==
    (itres' # itres /\ itres'.wasEnd) =>
        /\ UNCHANGED <<dirVars, m_pos, hostVars>>
        /\ IF itres'.kind = "directory"
           THEN m_handle'[itres'.it] = 0
           ELSE knownhost_equal(End)'

\* C40: using an iterator at the end of its sequence is an error that changes
\* nothing: incrementing or dereferencing an end known-host iterator raises
\* logic_error, incrementing an end directory iterator raises range_error and
\* dereferencing it raises logic_error; no call into the connection is made,
\* nothing but the record of the operation changes in that step, and the
\* iterator still compares equal to end afterwards
C40_EndUseIsError ==
    /\ []EndUseIsError
    /\ [][EndUseChangesNothing]_vars
\* a directory iterator that ran off the end of a listing it had entries of
\* was incremented again
C40_Witness ==
    /\ itres.kind = "directory"
    /\ itres.op = "increment"
    /\ itres.wasEnd
    /\ m_file_name[itres.it] = NFiles
    /\ Len(khosts) >= 1
    /\ m_pos # End

\* deleter of resource r has run, and where in the order
Released(r) == r \in Range(released)
\* resource child was released before resource parent, or never held
ReleasedBefore(child, parent) ==
    Released(parent) =>
        /\ \A o \in Objects : child \notin holds[o]
        /\ Released(child) => IndexOf(released, child) < IndexOf(released, parent)

\* C36: resources are released in dependency order whatever the order in
\* which the copies are destroyed: the file or directory handle is closed
\* before the SFTP sub-context it was opened on is shut down, and the host
\* list is freed before the session it was allocated from is freed
C36_DependencyOrder ==
    /\ ReleasedBefore("handle", "sftp")
    /\ ReleasedBefore("hosts", "session")
\* a stream device, a directory iterator and a known-host collection were
\* destroyed, the channel's last owner after the handle's
C36_Witness ==
    /\ released = <<"handle", "sftp", "hosts", "session">>
    /\ \E o, x \in Objects :
          /\ okind[o] = "sftp_io_device"
          /\ okind[x] = "directory_iterator"

\* C31: the read and write loops hold the connection lock for the duration
\* of each low-level call and only then: a thread inside a call of its
\* logical read or write holds the lock, and between two calls of the loop
\* it does not, so another stream's operation can enter its critical section
C31_LockPerLowLevelCall ==
    \A t \in Threads :
        op[t] \in {"read", "write"} =>
            /\ pc[t] = "incall" => lock["ssh"] = t
            /\ pc[t] = "loop" => lock["ssh"] # t

\* C32: the initialization of an sftp_channel, the opening of a directory and
\* every advance of a directory enumeration run while holding the connection
\* lock, each as a critical section of its own: the thread holds the lock
\* while in the call and no longer once the call has returned
C32_ChannelStepsLocked ==
    \A t \in Threads :
        /\ (op[t] \in ChannelOps /\ pc[t] = "incall") => lock["ssh"] = t
        /\ pc[t] = "idle" => lock["ssh"] # t

\* thread t is inside a known-host operation
InOperation(t) == pc[t] \in {"want", "incall", "errread"}

\* C37: no operation tries to take the session's non-recursive lock while it
\* holds it: erase, to_string, find, add, update and the iterator advance
\* open their lock scopes one after the other, never one inside the other,
\* so a thread never waits for itself, and every operation that has started
\* completes once the other threads release the lock
C37_NoSelfDeadlock ==
    /\ [](\A t \in Threads : pc[t] = "want" => lock["kh"] # t)
    /\ \A t \in Threads : InOperation(t) ~> (pc[t] = "idle")
\* an update, its erase done, waits for the scope of its add while another
\* thread holds the lock
C37_Witness ==
    \E t \in Threads, u \in Threads :
        /\ t # u
        /\ op[t] = "update" /\ sect[t] = 3 /\ pc[t] = "want"
        /\ lock["kh"] = u /\ pc[u] = "incall"

====
